---- MODULE Spec2Model ----
(***************************************************************************)
(* EIP-2771 toolkit: the pipeline from a MetaTx to an EIP-712 digest, a    *)
(* 65-byte signature and the batch helpers.                                *)
(*                                                                         *)
(* Byte strings are sequences of byte values.  A byte value is a record    *)
(*   [t |-> kind, v |-> number, pre |-> byte string]                       *)
(* kind "byte" is a concrete byte with value v in 0..255.  The other kinds *)
(* are the outputs of the library primitives, which are modelled as ideal  *)
(* functions: the output of Keccak256 is 32 byte values of kind "keccak",  *)
(* of which the first carries the preimage (so two outputs are equal       *)
(* exactly when the preimages are equal); an ECDSA signature is 32 byte    *)
(* values of kind "sigR", 32 of kind "sigS" and one concrete recovery      *)
(* byte.  All lengths and offsets are the code's.                          *)
(*                                                                         *)
(* uint64 values are sequences of 8 numbers (big-endian bytes), big.Int    *)
(* values are records [nil, neg, abs] with abs the big-endian magnitude    *)
(* without leading zero bytes, so that no width is lost.                   *)
(***************************************************************************)
EXTENDS Integers, Sequences, FiniteSets, TLC

\* ------------------------------------------------------------------ bounds
NKeys == 2
MaxBatch == 3

\* ------------------------------------------------------------------ bytes
B(n) == [t |-> "byte", v |-> n, pre |-> <<>>]

Bytes(ns) == [i \in 1..Len(ns) |-> B(ns[i])]

Zeros(n) == [i \in 1..n |-> B(0)]

RECURSIVE StripZeros(_)
StripZeros(ns) ==
    IF ns = <<>> THEN <<>>
    ELSE IF ns[1] = 0 THEN StripZeros(Tail(ns)) ELSE ns

\* crypto.Keccak256: an ideal hash, 32 bytes determined by the preimage
HashLength == 32
Keccak256(data) ==
    [i \in 1..HashLength |->
        [t |-> "keccak", v |-> i - 1, pre |-> IF i = 1 THEN data ELSE <<>>]]

\* the input a Keccak256 output was computed from
Preimage(h) == h[1].pre

\* ------------------------------------------------------------------ errors
\* An error is the chain of its layers, outermost first; nil is the empty chain.
NoError == <<>>
ErrorNew(msg) == << [msg |-> msg, index |-> -1] >>
Errorf(msg, idx) == << [msg |-> msg, index |-> idx] >>
Wrap(msg, idx, err) == << [msg |-> msg, index |-> idx] >> \o err
ErrorsIs(err, target) ==
    \E i \in 1..Len(err) : SubSeq(err, i, Len(err)) = target

ErrInvalidSignatureLength == ErrorNew("invalid signature length, expected 65 bytes")
ErrInvalidSignature == ErrorNew("invalid signature")
ErrExpiredDeadline == ErrorNew("deadline has expired")
ErrInvalidNonce == ErrorNew("invalid nonce")
ErrZeroAddress == ErrorNew("address cannot be zero")
ErrInvalidAmount == ErrorNew("invalid amount")

\* ------------------------------------------------------------------ numbers
\* uint64 as 8 big-endian bytes
U64(ns) == [i \in 1..8 |-> IF i <= 8 - Len(ns) THEN 0 ELSE ns[i - (8 - Len(ns))]]
U64Zero == U64(<<>>)
U64Max == [i \in 1..8 |-> 255]

\* x + 1 on a big-endian digit string of fixed length, the carry out dropped
RECURSIVE IncFixed(_)
IncFixed(ns) ==
    IF ns = <<>> THEN <<>>
    ELSE LET n == Len(ns)
             hi == SubSeq(ns, 1, n - 1)
         IN IF ns[n] < 255 THEN hi \o << ns[n] + 1 >>
            ELSE IncFixed(hi) \o << 0 >>

\* uint64 addition x + uint64(i): wraps modulo 2^64
RECURSIVE AddU64(_, _)
AddU64(x, i) == IF i = 0 THEN x ELSE AddU64(IncFixed(x), i - 1)

\* uint64 comparison a > b
GtU64(a, b) == \E i \in 1..8 : a[i] > b[i] /\ \A j \in 1..(i - 1) : a[j] = b[j]

\* *big.Int
BigNil == [nil |-> TRUE, neg |-> FALSE, abs |-> <<>>]
Big(ns) == [nil |-> FALSE, neg |-> FALSE, abs |-> StripZeros(ns)]
BigNeg(ns) == [nil |-> FALSE, neg |-> TRUE, abs |-> StripZeros(ns)]
\* new(big.Int).SetUint64(x)
SetUint64(x) == Big(x)
\* x.Sign()
BigSign(x) == IF x.abs = <<>> THEN 0 ELSE IF x.neg THEN -1 ELSE 1

\* x.FillBytes(buf) with len(buf) = n: the magnitude, big-endian, zero-extended;
\* panics on a nil receiver and when the magnitude does not fit
FillBytes(x, n) ==
    IF x.nil \/ Len(x.abs) > n
    THEN [panic |-> TRUE, bytes |-> <<>>]
    ELSE [panic |-> FALSE, bytes |-> Zeros(n - Len(x.abs)) \o Bytes(x.abs)]

\* ------------------------------------------------------------------ addresses
AddressLength == 20
ZeroAddress == Zeros(AddressLength)
\* a concrete address 0x00..0n
Addr(n) == Zeros(AddressLength - 1) \o << B(n) >>

Keys == 1..NKeys
\* crypto.PubkeyToAddress(privKey.PublicKey): one address per key
AddressFromPrivateKey(k) ==
    [i \in 1..AddressLength |->
        [t |-> "pubkey", v |-> i - 1, pre |-> IF i = 1 THEN << B(k) >> ELSE <<>>]]

\* IsValidAddress
IsValidAddress(addr) == addr # ZeroAddress

\* ------------------------------------------------------------------ types
\* Signature{V, R, S}
ZeroSignature == [V |-> B(0), R |-> Zeros(32), S |-> Zeros(32)]

\* ToBytes with r and s in each other's place
ToBytes_SwapRS(s) == s.S \o s.R \o << s.V >>

\* Signature.ToBytes
ToBytes(s) ==
    LET result == Zeros(65)
        r1 == [i \in 1..65 |-> IF i <= 32 THEN s.R[i] ELSE result[i]]
        r2 == [i \in 1..65 |-> IF i > 32 /\ i <= 64 THEN s.S[i - 32] ELSE r1[i]]
    IN  [r2 EXCEPT ![65] = s.V]

\* FromBytes that never sets V
FromBytes_DropV(s, data) ==
    IF Len(data) # 65
    THEN [sig |-> s, err |-> ErrInvalidSignatureLength]
    ELSE [sig |-> [V |-> s.V, R |-> SubSeq(data, 1, 32), S |-> SubSeq(data, 33, 64)],
          err |-> NoError]

\* FromBytes that only rejects inputs that are too short
FromBytes_AtLeast65(s, data) ==
    IF Len(data) < 65
    THEN [sig |-> s, err |-> ErrInvalidSignatureLength]
    ELSE [sig |-> [V |-> data[65], R |-> SubSeq(data, 1, 32), S |-> SubSeq(data, 33, 64)],
          err |-> NoError]

\* Signature.FromBytes on receiver s: the receiver afterwards, and the error
FromBytes(s, data) ==
    IF Len(data) # 65
    THEN [sig |-> s, err |-> ErrInvalidSignatureLength]
    ELSE [sig |-> [V |-> data[65], R |-> SubSeq(data, 1, 32), S |-> SubSeq(data, 33, 64)],
          err |-> NoError]

\* []byte("transfer(address,uint256)")
TransferSignatureString ==
 << 116, 114, 97, 110, 115, 102, 101, 114, 40, 97, 100, 100, 114, 101, 115, 115, 44, 117, 105, 110,
    116, 50, 53, 54, 41 >>

\* TransferData with the address copied to the front of its word
TransferData_NoPad(m) ==
    LET transferSignature == SubSeq(Keccak256(Bytes(TransferSignatureString)), 1, 4)
        toBytes == [i \in 1..32 |-> IF i <= Len(m.To) THEN m.To[i] ELSE B(0)]
        amountBytes == FillBytes(m.Amount, 32)
    IN  IF amountBytes.panic
        THEN [panic |-> TRUE, data |-> <<>>, err |-> NoError]
        ELSE [panic |-> FALSE,
              data |-> transferSignature \o toBytes \o amountBytes.bytes,
              err |-> NoError]

\* MetaTx.TransferData
TransferData(m) ==
    LET transferSignature == SubSeq(Keccak256(Bytes(TransferSignatureString)), 1, 4)
        toBytes == [i \in 1..32 |-> IF i > 12 /\ i - 12 <= Len(m.To) THEN m.To[i - 12] ELSE B(0)]
        amountBytes == FillBytes(m.Amount, 32)
    IN  IF amountBytes.panic
        THEN [panic |-> TRUE, data |-> <<>>, err |-> NoError]
        ELSE [panic |-> FALSE,
              data |-> transferSignature \o toBytes \o amountBytes.bytes,
              err |-> NoError]

\* ------------------------------------------------------------------ EIP-712
\* []byte(EIP712_DOMAIN_TYPEHASH)
EIP712_DOMAIN_TYPEHASH ==
 << 69, 73, 80, 55, 49, 50, 68, 111, 109, 97, 105, 110, 40, 115, 116, 114, 105, 110, 103, 32,
    110, 97, 109, 101, 44, 115, 116, 114, 105, 110, 103, 32, 118, 101, 114, 115, 105, 111, 110, 44,
    117, 105, 110, 116, 50, 53, 54, 32, 99, 104, 97, 105, 110, 73, 100, 44, 97, 100, 100, 114,
    101, 115, 115, 32, 118, 101, 114, 105, 102, 121, 105, 110, 103, 67, 111, 110, 116, 114, 97, 99,
    116, 41 >>

\* []byte(FORWARD_REQUEST_TYPEHASH)
FORWARD_REQUEST_TYPEHASH ==
 << 70, 111, 114, 119, 97, 114, 100, 82, 101, 113, 117, 101, 115, 116, 40, 97, 100, 100, 114, 101,
    115, 115, 32, 102, 114, 111, 109, 44, 97, 100, 100, 114, 101, 115, 115, 32, 116, 111, 44, 117,
    105, 110, 116, 50, 53, 54, 32, 118, 97, 108, 117, 101, 44, 117, 105, 110, 116, 50, 53, 54,
    32, 103, 97, 115, 44, 117, 105, 110, 116, 50, 53, 54, 32, 110, 111, 110, 99, 101, 44, 117,
    105, 110, 116, 52, 56, 32, 100, 101, 97, 100, 108, 105, 110, 101, 44, 98, 121, 116, 101, 115,
    32, 100, 97, 116, 97, 41 >>

\* "ERC2771Forwarder" and "1"
ForwarderName == << 69, 82, 67, 50, 55, 55, 49, 70, 111, 114, 119, 97, 114, 100, 101, 114 >>
ForwarderVersion == << 49 >>

\* BuildDomainSeparator
BuildDomainSeparator(name, version, chainId, verifyingContract) ==
    LET domainTypeHash == Keccak256(Bytes(EIP712_DOMAIN_TYPEHASH))
        nameHash == Keccak256(Bytes(name))
        versionHash == Keccak256(Bytes(version))
        chainIdBytes == FillBytes(chainId, 32)
        data == domainTypeHash \o nameHash \o versionHash
                  \o chainIdBytes.bytes \o verifyingContract
    IN  IF chainIdBytes.panic
        THEN [panic |-> TRUE, hash |-> <<>>, err |-> NoError]
        ELSE [panic |-> FALSE, hash |-> Keccak256(data), err |-> NoError]

\* CreateDomainSeparatorForChain with the chain id fixed to 1
CreateDomainSeparatorForChain_FixedChain(chainId, contractAddr) ==
    BuildDomainSeparator(ForwarderName, ForwarderVersion, Big(<<1>>), contractAddr)

\* CreateDomainSeparatorForChain
CreateDomainSeparatorForChain(chainId, contractAddr) ==
    BuildDomainSeparator(ForwarderName, ForwarderVersion, chainId, contractAddr)

\* HashMetaTx with the gas limit hardcoded to 100000
HashMetaTx_GasHardcoded(metaTx, domainSeparator) ==
    LET structTypeHash == Keccak256(Bytes(FORWARD_REQUEST_TYPEHASH))
        transferData == TransferData(metaTx)
        valueBytes == Zeros(32)
        gasBytes == FillBytes(SetUint64(U64(<<1, 134, 160>>)), 32).bytes
        nonceBytes == FillBytes(SetUint64(metaTx.Nonce), 32).bytes
        deadlineBytes == FillBytes(SetUint64(metaTx.Deadline), 32).bytes
        dataHash == Keccak256(transferData.data)
        structData == structTypeHash \o metaTx.From \o metaTx.Token \o valueBytes
                        \o gasBytes \o nonceBytes \o deadlineBytes \o dataHash
        structHash == Keccak256(structData)
        digest == << B(25), B(1) >> \o domainSeparator \o structHash
    IN  IF transferData.panic
        THEN [panic |-> TRUE, hash |-> <<>>, err |-> NoError]
        ELSE [panic |-> FALSE, hash |-> Keccak256(digest), err |-> NoError]

\* HashMetaTx
HashMetaTx(metaTx, domainSeparator) ==
    LET structTypeHash == Keccak256(Bytes(FORWARD_REQUEST_TYPEHASH))
        transferData == TransferData(metaTx)
        valueBytes == Zeros(32)
        gasBytes == FillBytes(SetUint64(metaTx.Gas), 32).bytes
        nonceBytes == FillBytes(SetUint64(metaTx.Nonce), 32).bytes
        deadlineBytes == FillBytes(SetUint64(metaTx.Deadline), 32).bytes
        dataHash == Keccak256(transferData.data)
        structData == structTypeHash \o metaTx.From \o metaTx.Token \o valueBytes
                        \o gasBytes \o nonceBytes \o deadlineBytes \o dataHash
        structHash == Keccak256(structData)
        digest == << B(25), B(1) >> \o domainSeparator \o structHash
    IN  IF transferData.panic
        THEN [panic |-> TRUE, hash |-> <<>>, err |-> NoError]
        ELSE IF transferData.err # NoError
        THEN [panic |-> FALSE, hash |-> <<>>,
              err |-> Wrap("failed to prepare transfer data", -1, transferData.err)]
        ELSE [panic |-> FALSE, hash |-> Keccak256(digest), err |-> NoError]

\* ------------------------------------------------------------------ ECDSA
\* The recovery identifiers crypto.Sign can emit
RecoveryIds == {0, 1}

SigWord(kind, payload) ==
    [i \in 1..32 |-> [t |-> kind, v |-> i - 1, pre |-> IF i = 1 THEN payload ELSE <<>>]]

\* crypto.Sign(hash, prv): r || s || v for the key, the digest and the recovery
\* identifier recid that the curve point determines; the key 0 stands for a
\* private key outside the curve's range (D = 0), which the primitive rejects
CryptoSign(hash, prv, recid) ==
    IF Len(hash) # 32
    THEN [sig |-> <<>>, err |-> ErrorNew("hash is required to be exactly 32 bytes")]
    ELSE IF prv = 0
    THEN [sig |-> <<>>, err |-> ErrorNew("invalid private key")]
    ELSE LET payload == << B(prv), B(recid) >> \o hash
         IN  [sig |-> SigWord("sigR", payload) \o SigWord("sigS", payload) \o << B(recid) >>,
              err |-> NoError]

\* r and s are the two halves of one signature made by crypto.Sign
IsSignedPair(r, s) ==
    /\ r[1].t = "sigR"
    /\ Len(r[1].pre) = 34
    /\ r = SigWord("sigR", r[1].pre)
    /\ s = SigWord("sigS", r[1].pre)

\* crypto.SigToPub followed by crypto.PubkeyToAddress.  A signature made by
\* crypto.Sign recovers the signer's key from the signed digest and recovery
\* identifier, and some other key from another digest or the other identifier;
\* an identifier above 3, or r, s that are no signature, are rejected.
RecoverAddress(hash, sigBytes) ==
    LET r == SubSeq(sigBytes, 1, 32)
        s == SubSeq(sigBytes, 33, 64)
        v == sigBytes[65]
        payload == r[1].pre
        other == [i \in 1..AddressLength |->
                    [t |-> "recovered", v |-> i - 1,
                     pre |-> IF i = 1 THEN hash \o sigBytes ELSE <<>>]]
    IN  IF Len(hash) # 32 \/ Len(sigBytes) # 65
        THEN [addr |-> ZeroAddress, err |-> ErrorNew("invalid message or signature length")]
        ELSE IF v.t # "byte" \/ v.v >= 4
        THEN [addr |-> ZeroAddress, err |-> ErrorNew("invalid signature recovery id")]
        ELSE IF ~IsSignedPair(r, s) \/ v.v >= 2
        THEN [addr |-> ZeroAddress, err |-> ErrorNew("recovery failed")]
        ELSE IF v = payload[2] /\ hash = SubSeq(payload, 3, 34)
        THEN [addr |-> AddressFromPrivateKey(payload[1].v), err |-> NoError]
        ELSE [addr |-> other, err |-> NoError]

\* SignMetaTx turning the recovery byte into the 27/28 form
SignMetaTx_Adds27(metaTx, userPrivKey, domainSeparator, recid) ==
    LET h == HashMetaTx(metaTx, domainSeparator)
        signed == CryptoSign(h.hash, userPrivKey, recid)
        parsed == FromBytes(ZeroSignature, signed.sig)
    IN  IF h.panic THEN [panic |-> TRUE, sig |-> ZeroSignature, err |-> NoError]
        ELSE IF h.err # NoError
        THEN [panic |-> FALSE, sig |-> ZeroSignature,
              err |-> Wrap("failed to hash MetaTx", -1, h.err)]
        ELSE IF signed.err # NoError
        THEN [panic |-> FALSE, sig |-> ZeroSignature,
              err |-> Wrap("failed to sign hash", -1, signed.err)]
        ELSE IF parsed.err # NoError
        THEN [panic |-> FALSE, sig |-> parsed.sig,
              err |-> Wrap("failed to parse signature", -1, parsed.err)]
        ELSE [panic |-> FALSE,
              sig |-> [parsed.sig EXCEPT !.V = B(parsed.sig.V.v + 27)],
              err |-> NoError]

\* SignMetaTx; recid is the recovery identifier crypto.Sign emits
SignMetaTx(metaTx, userPrivKey, domainSeparator, recid) ==
    LET h == HashMetaTx(metaTx, domainSeparator)
        signed == CryptoSign(h.hash, userPrivKey, recid)
        parsed == FromBytes(ZeroSignature, signed.sig)
    IN  IF h.panic THEN [panic |-> TRUE, sig |-> ZeroSignature, err |-> NoError]
        ELSE IF h.err # NoError
        THEN [panic |-> FALSE, sig |-> ZeroSignature,
              err |-> Wrap("failed to hash MetaTx", -1, h.err)]
        ELSE IF signed.err # NoError
        THEN [panic |-> FALSE, sig |-> ZeroSignature,
              err |-> Wrap("failed to sign hash", -1, signed.err)]
        ELSE IF parsed.err # NoError
        THEN [panic |-> FALSE, sig |-> parsed.sig,
              err |-> Wrap("failed to parse signature", -1, parsed.err)]
        ELSE [panic |-> FALSE, sig |-> parsed.sig, err |-> NoError]

\* VerifyMetaTxSignature that reports a signer other than from as an error
VerifyMetaTxSignature_MismatchIsError(metaTx, sig, domainSeparator) ==
    LET h == HashMetaTx(metaTx, domainSeparator)
        sigBytes == ToBytes(sig)
        recovered == RecoverAddress(h.hash, sigBytes)
    IN  IF h.panic THEN [panic |-> TRUE, valid |-> FALSE, err |-> NoError]
        ELSE IF h.err # NoError
        THEN [panic |-> FALSE, valid |-> FALSE,
              err |-> Wrap("failed to hash MetaTx", -1, h.err)]
        ELSE IF recovered.err # NoError
        THEN [panic |-> FALSE, valid |-> FALSE,
              err |-> Wrap("failed to recover public key", -1, recovered.err)]
        ELSE IF recovered.addr # metaTx.From
        THEN [panic |-> FALSE, valid |-> FALSE, err |-> ErrInvalidSignature]
        ELSE [panic |-> FALSE, valid |-> TRUE, err |-> NoError]

\* VerifyMetaTxSignature
VerifyMetaTxSignature(metaTx, sig, domainSeparator) ==
    LET h == HashMetaTx(metaTx, domainSeparator)
        sigBytes == ToBytes(sig)
        recovered == RecoverAddress(h.hash, sigBytes)
    IN  IF h.panic THEN [panic |-> TRUE, valid |-> FALSE, err |-> NoError]
        ELSE IF h.err # NoError
        THEN [panic |-> FALSE, valid |-> FALSE,
              err |-> Wrap("failed to hash MetaTx", -1, h.err)]
        ELSE IF recovered.err # NoError
        THEN [panic |-> FALSE, valid |-> FALSE,
              err |-> Wrap("failed to recover public key", -1, recovered.err)]
        ELSE [panic |-> FALSE, valid |-> recovered.addr = metaTx.From, err |-> NoError]

\* the calls to the crypto library SignMetaTx makes: crypto.Sign, once
\* HashMetaTx has returned a digest
SignMetaTxCalls(metaTx, domainSeparator) ==
    LET h == HashMetaTx(metaTx, domainSeparator)
    IN  IF h.panic \/ h.err # NoError THEN <<>> ELSE << "crypto.Sign" >>

\* the calls to the crypto library VerifyMetaTxSignature makes: crypto.SigToPub,
\* once HashMetaTx has returned a digest
VerifyMetaTxSignatureCalls(metaTx, domainSeparator) ==
    LET h == HashMetaTx(metaTx, domainSeparator)
    IN  IF h.panic \/ h.err # NoError THEN <<>> ELSE << "crypto.SigToPub" >>

\* validateMetaTx that lets an amount of zero pass
validateMetaTx_ZeroAmountPasses(metaTx) ==
    IF metaTx.From = ZeroAddress THEN ErrZeroAddress
    ELSE IF metaTx.To = ZeroAddress THEN ErrZeroAddress
    ELSE IF metaTx.Token = ZeroAddress THEN ErrZeroAddress
    ELSE IF metaTx.Amount.nil \/ BigSign(metaTx.Amount) < 0 THEN ErrInvalidAmount
    ELSE IF metaTx.Deadline = U64Zero THEN ErrExpiredDeadline
    ELSE NoError

\* validateMetaTx
validateMetaTx(metaTx) ==
    IF metaTx.From = ZeroAddress THEN ErrZeroAddress
    ELSE IF metaTx.To = ZeroAddress THEN ErrZeroAddress
    ELSE IF metaTx.Token = ZeroAddress THEN ErrZeroAddress
    ELSE IF metaTx.Amount.nil \/ BigSign(metaTx.Amount) <= 0 THEN ErrInvalidAmount
    ELSE IF metaTx.Deadline = U64Zero THEN ErrExpiredDeadline
    ELSE NoError

\* ValidateDeadline that rejects a deadline equal to the current second
ValidateDeadline_RejectsNow(deadline, unixNow) ==
    IF GtU64(unixNow, deadline) \/ unixNow = deadline THEN ErrExpiredDeadline ELSE NoError

\* ValidateDeadline, with unixNow the reading of the clock it takes
ValidateDeadline(deadline, unixNow) ==
    IF GtU64(unixNow, deadline) THEN ErrExpiredDeadline ELSE NoError

\* NewMetaTx
NewMetaTx(from, to, token, amount, gas, nonce, deadline) ==
    [From |-> from, To |-> to, Token |-> token, Amount |-> amount,
     Gas |-> gas, Nonce |-> nonce, Deadline |-> deadline]

NoMetaTx == NewMetaTx(ZeroAddress, ZeroAddress, ZeroAddress, BigNil, U64Zero, U64Zero, U64Zero)

\* NewMetaTxBatch that gives every MetaTx the starting nonce
NewMetaTxBatch_SameNonce(from, recipients, token, amounts, gas, startingNonce, deadline) ==
    IF Len(recipients) # Len(amounts)
    THEN [nil |-> TRUE, metaTxs |-> <<>>,
          err |-> Errorf("recipients and amounts length mismatch", -1)]
    ELSE [nil |-> FALSE,
          metaTxs |-> [i \in 1..Len(recipients) |->
                          NewMetaTx(from, recipients[i], token, amounts[i], gas,
                                    startingNonce, deadline)],
          err |-> NoError]

\* NewMetaTxBatch that pairs recipients and amounts as far as both lists go
NewMetaTxBatch_ShorterLength(from, recipients, token, amounts, gas, startingNonce, deadline) ==
    [nil |-> FALSE,
     metaTxs |-> [i \in 1..(IF Len(recipients) < Len(amounts)
                            THEN Len(recipients) ELSE Len(amounts)) |->
                     NewMetaTx(from, recipients[i], token, amounts[i], gas,
                               AddU64(startingNonce, i - 1), deadline)],
     err |-> NoError]

\* NewMetaTxBatch
NewMetaTxBatch(from, recipients, token, amounts, gas, startingNonce, deadline) ==
    IF Len(recipients) # Len(amounts)
    THEN [nil |-> TRUE, metaTxs |-> <<>>,
          err |-> Errorf("recipients and amounts length mismatch", -1)]
    ELSE [nil |-> FALSE,
          metaTxs |-> [i \in 1..Len(recipients) |->
                          NewMetaTx(from, recipients[i], token, amounts[i], gas,
                                    AddU64(startingNonce, i - 1), deadline)],
          err |-> NoError]

\* BatchMetaTxRequest
ZeroBatchRequest == [MetaTx |-> NoMetaTx, Signature |-> ZeroSignature]

\* CreateBatchRequest
CreateBatchRequest(metaTx, userPrivKey, domainSeparator, recid) ==
    LET signature == SignMetaTx(metaTx, userPrivKey, domainSeparator, recid)
    IN  IF signature.panic
        THEN [panic |-> TRUE, req |-> ZeroBatchRequest, err |-> NoError]
        ELSE IF signature.err # NoError
        THEN [panic |-> FALSE, req |-> ZeroBatchRequest,
              err |-> Wrap("failed to sign MetaTx", -1, signature.err)]
        ELSE [panic |-> FALSE,
              req |-> [MetaTx |-> metaTx, Signature |-> signature.sig],
              err |-> NoError]

\* ValidateBatchNonces: the loop from index i (from 0) on
RECURSIVE ValidateBatchNoncesFrom(_, _, _)
ValidateBatchNoncesFrom(batch, expectedStartNonce, i) ==
    IF i >= Len(batch) THEN NoError
    ELSE LET expectedNonce == AddU64(expectedStartNonce, i)
         IN  IF batch[i + 1].MetaTx.Nonce # expectedNonce
             THEN Errorf("invalid nonce at index", i)
             ELSE ValidateBatchNoncesFrom(batch, expectedStartNonce, i + 1)

\* ValidateBatchNonces that does not look at the first request
ValidateBatchNonces_SkipFirst(batch, expectedStartNonce) ==
    ValidateBatchNoncesFrom(batch, expectedStartNonce, 1)

ValidateBatchNonces(batch, expectedStartNonce) ==
    ValidateBatchNoncesFrom(batch, expectedStartNonce, 0)

\* ValidateBatchFromSameUser: the loop from index i (from 0) on
RECURSIVE ValidateBatchFromSameUserFrom(_, _, _)
ValidateBatchFromSameUserFrom(batch, expectedFrom, i) ==
    IF i >= Len(batch) THEN NoError
    ELSE IF batch[i + 1].MetaTx.From # expectedFrom
         THEN Errorf("request at index has different from address", i)
         ELSE ValidateBatchFromSameUserFrom(batch, expectedFrom, i + 1)

\* ValidateBatchFromSameUser that takes the last request's from as the expected one
ValidateBatchFromSameUser_ExpectLast(batch) ==
    IF Len(batch) = 0 THEN NoError
    ELSE ValidateBatchFromSameUserFrom(batch, batch[Len(batch)].MetaTx.From, 0)

\* ValidateBatchFromSameUser
ValidateBatchFromSameUser(batch) ==
    IF Len(batch) = 0 THEN NoError
    ELSE ValidateBatchFromSameUserFrom(batch, batch[1].MetaTx.From, 0)

\* context.Canceled
ErrCanceled == ErrorNew("context canceled")

\* ------------------------------------------------------------------ inputs
SignerAddresses == {AddressFromPrivateKey(k) : k \in Keys}
RecipientAddresses == {Addr(1), Addr(2)}
TokenAddresses == {Addr(3), Addr(4)}
ContractAddresses == {Addr(5), Addr(6)}
AllAddresses == {ZeroAddress} \cup SignerAddresses \cup RecipientAddresses \cup TokenAddresses

\* amounts of the data model: unsigned 256-bit
OneEther == Big(<<13, 224, 182, 179, 167, 100, 0, 0>>)
OneEtherPlusOne == Big(<<13, 224, 182, 179, 167, 100, 0, 1>>)
MaxUint256 == Big([i \in 1..32 |-> 255])
Amounts == {Big(<<>>), Big(<<1>>), Big(<<1, 0>>), OneEther, OneEtherPlusOne, MaxUint256}
ValidAmounts == {OneEther, MaxUint256}

DefaultGas == U64(<<1, 134, 160>>)
GasLimits == {U64Zero, DefaultGas, U64Max}
Nonces == {U64Zero, U64(<<1>>), U64(<<7>>), U64(<<8>>), U64Max}
FarDeadline == U64(<<119, 53, 148, 0>>)
\* the clock readings: the second before FarDeadline and the seconds after it
ClockSteps == 2
FirstTime == U64(<<119, 53, 147, 255>>)
Times == {AddU64(FirstTime, k) : k \in 0..ClockSteps}
\* uint64(time.Now().Unix()) + delaySeconds for a delay of 60 seconds
SixtySecondsAfter(t) ==
    LET low == t[8] + 60
    IN  IF low < 256 THEN [t EXCEPT ![8] = low]
        ELSE IncFixed(SubSeq(t, 1, 7)) \o << low - 256 >>
Deadlines == {U64Zero, U64(<<1>>), FarDeadline, U64Max}

ChainIds == {Big(<<1>>), Big(<<137>>)}
RawDomainSeparators == {Zeros(32), <<>>}

\* the requests that are signed
SignedMetaTxs ==
    {NewMetaTx(f, t, Addr(3), a, DefaultGas, n, d) :
        f \in SignerAddresses, t \in RecipientAddresses, a \in ValidAmounts,
        n \in {U64Zero, U64Max}, d \in {FarDeadline}}

Fields == {"From", "To", "Token", "Amount", "Gas", "Nonce", "Deadline"}
FieldValues(f) ==
    CASE f = "From" -> AllAddresses
      [] f = "To" -> AllAddresses
      [] f = "Token" -> AllAddresses
      [] f = "Amount" -> Amounts
      [] f = "Gas" -> GasLimits
      [] f = "Nonce" -> Nonces
      [] f = "Deadline" -> Deadlines

\* m with one field changed
OneFieldVariants(m) ==
    {[m EXCEPT ![f] = x] : <<f, x>> \in
        {fx \in UNION {{<<g, y>> : y \in FieldValues(g)} : g \in Fields} : m[fx[1]] # fx[2]}}

Pattern(off, n) == [i \in 1..n |-> B((off + i) % 256)]

\* a signature as SignMetaTx returns it
GenuineSignature(k, recid) ==
    FromBytes(ZeroSignature, CryptoSign(Keccak256(<<>>), k, recid).sig).sig

Signatures ==
    {ZeroSignature,
     [V |-> B(27), R |-> Pattern(0, 32), S |-> Pattern(32, 32)],
     [V |-> B(255), R |-> Pattern(200, 32), S |-> Zeros(32)]}
    \cup {GenuineSignature(k, recid) : k \in Keys, recid \in RecoveryIds}

RawLengths == {0, 1, 64, 65, 66, 130}
RawData == {Pattern(0, n) : n \in RawLengths} \cup {Zeros(n) : n \in RawLengths}

TransferMetaTxs ==
    {NewMetaTx(f, t, Addr(3), a, g, U64Zero, FarDeadline) :
        f \in {ZeroAddress, AddressFromPrivateKey(1)}, t \in AllAddresses,
        a \in Amounts, g \in {U64Zero, DefaultGas}}

\* ------------------------------------------------------------------ state
VARIABLES
    pc,                 \* the call the caller makes next, or made last
    metaTx,             \* the MetaTx argument
    privKey,            \* the signing key
    chainId,            \* domain: chain id (BigNil: the separator was given raw)
    verifyingContract,  \* domain: forwarder address
    domainSeparator,    \* the domain separator argument
    sig,                \* the caller's Signature value
    signed,             \* what SignMetaTx was called with
    data,               \* a byte slice argument
    recv,               \* the receiver of FromBytes
    batchArgs,          \* the arguments of NewMetaTxBatch
    metaTxs,            \* the caller's []MetaTx
    batch,              \* the BatchMetaTxRequestList being built or held
    idx,                \* the index a batch loop is at (from 0)
    ctxDone,            \* ctx.Done() is closed
    expectedStartNonce, \* the argument of ValidateBatchNonces
    ret,                \* what the last call returned
    now,                \* uint64(time.Now().Unix())
    call,               \* the operation invoked last, and ctx at its invocation
    log,                \* the calls made so far to crypto and to the RPC client
    userPrivKeys,       \* the keys argument of CreateBatchFromMetaTxs
    refundReceiver,     \* the refund receiver of a batch relay
    results,            \* the []bool VerifyBatchRequests fills
    packed              \* the arguments of parsedABI.Pack in a relay

batchVars == <<batchArgs, metaTxs, batch, idx, ctxDone, expectedStartNonce>>

vars == <<pc, metaTx, privKey, chainId, verifyingContract, domainSeparator,
          sig, signed, data, recv, batchArgs, metaTxs, batch, idx, ctxDone,
          expectedStartNonce, ret, now, call, log, userPrivKeys, refundReceiver,
          results, packed>>

opVars == <<now, userPrivKeys, refundReceiver, results, packed>>

NoSigned == [metaTx |-> NoMetaTx, domainSeparator |-> <<>>,
             chainId |-> BigNil, verifyingContract |-> ZeroAddress]
NoRet == [err |-> NoError]
NoBatchArgs == [from |-> ZeroAddress, recipients |-> <<>>, token |-> ZeroAddress,
                amounts |-> <<>>, gas |-> U64Zero, startingNonce |-> U64Zero,
                deadline |-> U64Zero]
NoPacked == [method |-> "", requests |-> <<>>, refundReceiver |-> ZeroAddress,
             value |-> BigNil]
NoCall == [op |-> "", ctxDone |-> FALSE]
\* no clock reading, call or relay argument is involved
NoEnv ==
    /\ now = FirstTime
    /\ call = NoCall
    /\ log = <<>>
    /\ userPrivKeys = <<>>
    /\ refundReceiver = ZeroAddress
    /\ results = <<>>
    /\ packed = NoPacked

NoBatch ==
    /\ batchArgs = NoBatchArgs
    /\ metaTxs = <<>>
    /\ batch = <<>>
    /\ idx = 0
    /\ ctxDone = FALSE
    /\ expectedStartNonce = U64Zero

\* ---- sign and verify (examples/basic: build the separator, sign, verify)
InitSign ==
    /\ metaTx \in SignedMetaTxs
    /\ privKey \in Keys
    /\ \/ /\ pc = "domain"
          /\ chainId \in ChainIds
          /\ verifyingContract \in ContractAddresses
          /\ domainSeparator = <<>>
       \/ /\ pc = "sign"
          /\ chainId = BigNil
          /\ verifyingContract = ZeroAddress
          /\ domainSeparator \in RawDomainSeparators
    /\ sig = ZeroSignature
    /\ signed = NoSigned
    /\ data = <<>>
    /\ recv = ZeroSignature
    /\ NoBatch
    /\ NoEnv
    /\ ret = NoRet

CallCreateDomainSeparatorForChain ==
    /\ UNCHANGED <<opVars, call, log>>
    /\ pc = "domain"
    /\ LET r == CreateDomainSeparatorForChain(chainId, verifyingContract)
       IN  /\ ret' = r
           /\ domainSeparator' = r.hash
           /\ pc' = IF r.panic THEN "panic" ELSE "sign"
    /\ UNCHANGED <<metaTx, privKey, chainId, verifyingContract, sig, signed, data, recv, batchVars>>

\* HashMetaTx building the digest by appending to the caller's separator
CallHashMetaTx_AppendsToSeparator ==
    /\ UNCHANGED <<opVars, call, log>>
    /\ pc = "sign"
    /\ LET r == HashMetaTx(metaTx, domainSeparator)
       IN  /\ ret' = r
           /\ pc' = IF r.panic THEN "panic" ELSE "hashed"
           /\ domainSeparator' = domainSeparator \o (IF r.panic THEN <<>> ELSE r.hash)
    /\ UNCHANGED <<metaTx, privKey, chainId, verifyingContract,
                   sig, signed, data, recv, batchVars>>


CallHashMetaTx ==
    /\ UNCHANGED <<opVars, call, log>>
    /\ pc = "sign"
    /\ LET r == HashMetaTx(metaTx, domainSeparator)
       IN  /\ ret' = r
           /\ pc' = IF r.panic THEN "panic" ELSE "hashed"
    /\ UNCHANGED <<metaTx, privKey, chainId, verifyingContract, domainSeparator,
                   sig, signed, data, recv, batchVars>>

CallSignMetaTx ==
    /\ pc = "sign"
    /\ \E recid \in RecoveryIds :
         LET r == SignMetaTx(metaTx, privKey, domainSeparator, recid)
         IN  /\ ret' = r
             /\ sig' = r.sig
             /\ pc' = IF r.panic THEN "panic" ELSE IF r.err # NoError THEN "failed" ELSE "signed"
    /\ signed' = [metaTx |-> metaTx, domainSeparator |-> domainSeparator,
                  chainId |-> chainId, verifyingContract |-> verifyingContract]
    /\ log' = log \o SignMetaTxCalls(metaTx, domainSeparator)
    /\ UNCHANGED <<opVars, call>>
    /\ UNCHANGED <<metaTx, privKey, chainId, verifyingContract, domainSeparator, data, recv, batchVars>>

\* verify the signature against the signed request, or against a request
\* that differs from it in one field, or under another domain
CallVerifyMetaTxSignature ==
    /\ pc = "signed"
    /\ \/ /\ metaTx' \in {metaTx} \cup OneFieldVariants(metaTx)
          /\ UNCHANGED <<chainId, verifyingContract, domainSeparator>>
       \/ /\ chainId' \in ChainIds
          /\ verifyingContract' \in ContractAddresses
          /\ <<chainId', verifyingContract'>> # <<chainId, verifyingContract>>
          /\ domainSeparator' = CreateDomainSeparatorForChain(chainId', verifyingContract').hash
          /\ UNCHANGED metaTx
    /\ LET r == VerifyMetaTxSignature(metaTx', sig, domainSeparator')
       IN  /\ ret' = r
           /\ pc' = IF r.panic THEN "panic" ELSE "verified"
    /\ log' = log \o VerifyMetaTxSignatureCalls(metaTx', domainSeparator')
    /\ UNCHANGED <<opVars, call>>
    /\ UNCHANGED <<privKey, sig, signed, data, recv, batchVars>>

\* ---- signature bytes
InitSignatureBytes ==
    /\ \/ /\ pc = "tobytes"
          /\ sig \in Signatures
          /\ data = <<>>
       \/ /\ pc = "frombytes"
          /\ sig = ZeroSignature
          /\ data \in RawData
    /\ recv \in Signatures
    /\ metaTx = NoMetaTx
    /\ privKey = 1
    /\ chainId = BigNil
    /\ verifyingContract = ZeroAddress
    /\ domainSeparator = <<>>
    /\ signed = NoSigned
    /\ NoBatch
    /\ NoEnv
    /\ ret = NoRet

CallToBytes ==
    /\ UNCHANGED <<opVars, call, log>>
    /\ pc = "tobytes"
    /\ data' = ToBytes(sig)
    /\ ret' = [err |-> NoError, bytes |-> ToBytes(sig)]
    /\ pc' = "frombytes"
    /\ UNCHANGED <<metaTx, privKey, chainId, verifyingContract, domainSeparator,
                   sig, signed, recv, batchVars>>

CallFromBytes ==
    /\ UNCHANGED <<opVars, call, log>>
    /\ pc = "frombytes"
    /\ LET r == FromBytes(recv, data)
       IN  /\ recv' = r.sig
           /\ ret' = [err |-> r.err]
    /\ pc' = "parsed"
    /\ UNCHANGED <<metaTx, privKey, chainId, verifyingContract, domainSeparator,
                   sig, signed, data, batchVars>>

\* ---- transfer calldata
InitTransfer ==
    /\ pc = "transfer"
    /\ metaTx \in TransferMetaTxs
    /\ privKey = 1
    /\ chainId = BigNil
    /\ verifyingContract = ZeroAddress
    /\ domainSeparator = <<>>
    /\ sig = ZeroSignature
    /\ signed = NoSigned
    /\ data = <<>>
    /\ recv = ZeroSignature
    /\ NoBatch
    /\ NoEnv
    /\ ret = NoRet

CallTransferData ==
    /\ UNCHANGED <<opVars, call, log>>
    /\ pc = "transfer"
    /\ LET r == TransferData(metaTx)
       IN  /\ ret' = r
           /\ pc' = IF r.panic THEN "panic" ELSE "encoded"
    /\ UNCHANGED <<metaTx, privKey, chainId, verifyingContract, domainSeparator,
                   sig, signed, data, recv, batchVars>>

\* ---- batches
SeqsUpTo(S, n) == UNION {[1..k -> S] : k \in 0..n}

\* amounts: the first n of a list of distinct amounts
AmountAt(i) ==
    CASE i % 3 = 1 -> Big(<<1>>)
      [] i % 3 = 2 -> OneEther
      [] OTHER -> MaxUint256
AmountLists == {[i \in 1..k |-> AmountAt(i)] : k \in 0..MaxBatch}

FixedDomainSeparator == CreateDomainSeparatorForChain(Big(<<1>>), Addr(5)).hash

InitNewBatch ==
    /\ pc = "newbatch"
    /\ \E rs \in SeqsUpTo(RecipientAddresses, MaxBatch), as \in AmountLists,
          n \in {U64Zero, U64(<<7>>), U64Max} :
         batchArgs = [from |-> AddressFromPrivateKey(1), recipients |-> rs,
                      token |-> Addr(3), amounts |-> as, gas |-> DefaultGas,
                      startingNonce |-> n, deadline |-> FarDeadline]
    /\ metaTxs = <<>>
    /\ batch = <<>>
    /\ idx = 0
    /\ ctxDone \in BOOLEAN
    /\ expectedStartNonce = U64Zero
    /\ metaTx = NoMetaTx
    /\ privKey = 1
    /\ chainId = Big(<<1>>)
    /\ verifyingContract = Addr(5)
    /\ domainSeparator = FixedDomainSeparator
    /\ sig = ZeroSignature
    /\ signed = NoSigned
    /\ data = <<>>
    /\ recv = ZeroSignature
    /\ NoEnv
    /\ ret = NoRet

\* a batch put together by the caller, of any nonces
InitValidate ==
    /\ pc = "validate"
    /\ \E ns \in SeqsUpTo(Nonces, MaxBatch) :
         batch = [i \in 1..Len(ns) |->
                    [MetaTx |-> NewMetaTx(AddressFromPrivateKey(1), Addr(1), Addr(3),
                                          OneEther, DefaultGas, ns[i], FarDeadline),
                     Signature |-> ZeroSignature]]
    /\ batchArgs = NoBatchArgs
    /\ metaTxs = <<>>
    /\ idx = 0
    /\ ctxDone = FALSE
    /\ expectedStartNonce = U64Zero
    /\ metaTx = NoMetaTx
    /\ privKey = 1
    /\ chainId = BigNil
    /\ verifyingContract = ZeroAddress
    /\ domainSeparator = <<>>
    /\ sig = ZeroSignature
    /\ signed = NoSigned
    /\ data = <<>>
    /\ recv = ZeroSignature
    /\ NoEnv
    /\ ret = NoRet

cryptoVars == <<metaTx, privKey, chainId, verifyingContract, domainSeparator, sig, signed>>

CallNewMetaTxBatch ==
    /\ UNCHANGED <<opVars, call, log>>
    /\ pc = "newbatch"
    /\ LET a == batchArgs
           r == NewMetaTxBatch(a.from, a.recipients, a.token, a.amounts, a.gas,
                               a.startingNonce, a.deadline)
       IN  /\ ret' = r
           /\ metaTxs' = r.metaTxs
           /\ pc' = IF r.err # NoError THEN "failed" ELSE "batchsign"
    /\ UNCHANGED <<cryptoVars, data, recv, batchArgs, batch, idx, ctxDone,
                   expectedStartNonce>>

\* CreateBatchFromSingleUser up to its loop: batch := make(..., len(metaTxs))
CallCreateBatchFromSingleUser ==
    /\ pc = "batchsign"
    /\ batch' = [i \in 1..Len(metaTxs) |-> ZeroBatchRequest]
    /\ idx' = 0
    /\ pc' = "signloop"
    /\ call' = [op |-> "CreateBatchFromSingleUser", ctxDone |-> ctxDone]
    /\ UNCHANGED <<opVars, log>>
    /\ UNCHANGED <<cryptoVars, data, recv, batchArgs, metaTxs, ctxDone,
                   expectedStartNonce, ret>>

\* the rest of an iteration of a signing loop once CreateBatchRequest has
\* returned r: the error return to the pc failed, or batch[i] = batchReq
BatchRequestCreated(r, failed) ==
    IF r.panic
    THEN /\ ret' = [nil |-> TRUE, batch |-> <<>>, err |-> NoError]
         /\ pc' = "panic"
         /\ UNCHANGED <<batch, idx>>
    ELSE IF r.err # NoError
    THEN /\ ret' = [nil |-> TRUE, batch |-> <<>>,
                    err |-> Wrap("failed to create batch request at index", idx, r.err)]
         /\ batch' = <<>>
         /\ pc' = failed
         /\ UNCHANGED idx
    ELSE /\ batch' = [batch EXCEPT ![idx + 1] = r.req]
         /\ idx' = idx + 1
         /\ UNCHANGED <<pc, ret>>

\* CreateBatchFromSingleUser polling the context before its first element only
SingleUserLoop_PollOnce ==
    /\ pc = "signloop"
    /\ IF idx >= Len(metaTxs)
       THEN /\ ret' = [nil |-> FALSE, batch |-> batch, err |-> NoError]
            /\ pc' = "validate"
            /\ UNCHANGED <<batch, idx, log>>
       ELSE IF ctxDone /\ idx = 0
       THEN /\ ret' = [nil |-> TRUE, batch |-> <<>>, err |-> ErrCanceled]
            /\ batch' = <<>>
            /\ pc' = "failed"
            /\ UNCHANGED <<idx, log>>
       ELSE /\ log' = log \o SignMetaTxCalls(metaTxs[idx + 1], domainSeparator)
            /\ \E recid \in RecoveryIds :
                 BatchRequestCreated(CreateBatchRequest(metaTxs[idx + 1], privKey,
                                                        domainSeparator, recid),
                                     "failed")
    /\ UNCHANGED <<cryptoVars, data, recv, batchArgs, metaTxs, ctxDone,
                   expectedStartNonce>>
    /\ UNCHANGED <<opVars, call>>

\* CreateBatchFromSingleUser: one iteration of the loop, or the return after it
SingleUserLoop ==
    /\ pc = "signloop"
    /\ IF idx >= Len(metaTxs)
       THEN /\ ret' = [nil |-> FALSE, batch |-> batch, err |-> NoError]
            /\ pc' = "validate"
            /\ UNCHANGED <<batch, idx, log>>
       ELSE IF ctxDone
       THEN /\ ret' = [nil |-> TRUE, batch |-> <<>>, err |-> ErrCanceled]
            /\ batch' = <<>>
            /\ pc' = "failed"
            /\ UNCHANGED <<idx, log>>
       ELSE /\ log' = log \o SignMetaTxCalls(metaTxs[idx + 1], domainSeparator)
            /\ \E recid \in RecoveryIds :
                 BatchRequestCreated(CreateBatchRequest(metaTxs[idx + 1], privKey,
                                                        domainSeparator, recid),
                                     "failed")
    /\ UNCHANGED <<cryptoVars, data, recv, batchArgs, metaTxs, ctxDone,
                   expectedStartNonce>>
    /\ UNCHANGED <<opVars, call>>

\* the caller cancels the context
CtxCancel ==
    /\ UNCHANGED <<opVars, call, log>>
    /\ pc \in {"batchsign", "signloop", "zipsign", "ziploop", "verifybatch", "verifyloop"}
    /\ ~ctxDone
    /\ ctxDone' = TRUE
    /\ UNCHANGED <<pc, cryptoVars, data, recv, batchArgs, metaTxs, batch, idx,
                   expectedStartNonce, ret>>

CallValidateBatchNonces ==
    /\ UNCHANGED <<opVars, call, log>>
    /\ pc = "validate"
    /\ expectedStartNonce' \in Nonces
    /\ ret' = [err |-> ValidateBatchNonces(batch, expectedStartNonce')]
    /\ pc' = "validated"
    /\ UNCHANGED <<cryptoVars, data, recv, batchArgs, metaTxs, batch, idx, ctxDone>>

\* ---- CreateBatchFromMetaTxs: one key per MetaTx
\* the i-th MetaTx of a caller's list
MetaTxAt(i) ==
    NewMetaTx(AddressFromPrivateKey(1), Addr(1), Addr(3), AmountAt(i), DefaultGas,
              U64(<< i - 1 >>), FarDeadline)
MetaTxLists == {[i \in 1..k |-> MetaTxAt(i)] : k \in 0..MaxBatch}

InitFromMetaTxs ==
    /\ pc = "zipsign"
    /\ metaTxs \in MetaTxLists
    /\ userPrivKeys \in SeqsUpTo({0, 1, 2}, MaxBatch)
    /\ ctxDone \in BOOLEAN
    /\ now \in {FirstTime, AddU64(FirstTime, ClockSteps)}
    /\ batchArgs = NoBatchArgs
    /\ batch = <<>>
    /\ idx = 0
    /\ expectedStartNonce = U64Zero
    /\ metaTx = NoMetaTx
    /\ privKey = 1
    /\ chainId = Big(<<1>>)
    /\ verifyingContract = Addr(5)
    /\ domainSeparator = FixedDomainSeparator
    /\ sig = ZeroSignature
    /\ signed = NoSigned
    /\ data = <<>>
    /\ recv = ZeroSignature
    /\ call = NoCall
    /\ log = <<>>
    /\ refundReceiver = ZeroAddress
    /\ results = <<>>
    /\ packed = NoPacked
    /\ ret = NoRet

\* CreateBatchFromMetaTxs up to its loop: the length check and make(...)
CallCreateBatchFromMetaTxs ==
    /\ pc = "zipsign"
    /\ call' = [op |-> "CreateBatchFromMetaTxs", ctxDone |-> ctxDone]
    /\ IF Len(metaTxs) # Len(userPrivKeys)
       THEN /\ ret' = [nil |-> TRUE, batch |-> <<>>,
                       err |-> Errorf("metaTxs and userPrivKeys length mismatch", -1)]
            /\ pc' = "zipfailed"
            /\ UNCHANGED <<batch, idx>>
       ELSE /\ batch' = [i \in 1..Len(metaTxs) |-> ZeroBatchRequest]
            /\ idx' = 0
            /\ pc' = "ziploop"
            /\ UNCHANGED ret
    /\ UNCHANGED <<cryptoVars, data, recv, batchArgs, metaTxs, ctxDone,
                   expectedStartNonce, opVars, log>>

\* CreateBatchFromMetaTxs signing every element with the first key
FromMetaTxsLoop_FirstKey ==
    /\ pc = "ziploop"
    /\ IF idx >= Len(metaTxs)
       THEN /\ ret' = [nil |-> FALSE, batch |-> batch, err |-> NoError]
            /\ pc' = "zipped"
            /\ UNCHANGED <<batch, idx, log>>
       ELSE IF ctxDone
       THEN /\ ret' = [nil |-> TRUE, batch |-> <<>>, err |-> ErrCanceled]
            /\ batch' = <<>>
            /\ pc' = "zipfailed"
            /\ UNCHANGED <<idx, log>>
       ELSE /\ log' = log \o SignMetaTxCalls(metaTxs[idx + 1], domainSeparator)
            /\ \E recid \in RecoveryIds :
                 BatchRequestCreated(CreateBatchRequest(metaTxs[idx + 1],
                                                        userPrivKeys[1],
                                                        domainSeparator, recid),
                                     "zipfailed")
    /\ UNCHANGED <<cryptoVars, data, recv, batchArgs, metaTxs, ctxDone,
                   expectedStartNonce, opVars, call>>

\* CreateBatchFromMetaTxs: one iteration of the loop, or the return after it
FromMetaTxsLoop ==
    /\ pc = "ziploop"
    /\ IF idx >= Len(metaTxs)
       THEN /\ ret' = [nil |-> FALSE, batch |-> batch, err |-> NoError]
            /\ pc' = "zipped"
            /\ UNCHANGED <<batch, idx, log>>
       ELSE IF ctxDone
       THEN /\ ret' = [nil |-> TRUE, batch |-> <<>>, err |-> ErrCanceled]
            /\ batch' = <<>>
            /\ pc' = "zipfailed"
            /\ UNCHANGED <<idx, log>>
       ELSE /\ log' = log \o SignMetaTxCalls(metaTxs[idx + 1], domainSeparator)
            /\ \E recid \in RecoveryIds :
                 BatchRequestCreated(CreateBatchRequest(metaTxs[idx + 1],
                                                        userPrivKeys[idx + 1],
                                                        domainSeparator, recid),
                                     "zipfailed")
    /\ UNCHANGED <<cryptoVars, data, recv, batchArgs, metaTxs, ctxDone,
                   expectedStartNonce, opVars, call>>

\* ---- VerifyBatchRequests
\* the i-th request of a received batch: signed by the key of from, signed by
\* another key, or carrying no signature
RequestsAt(i) ==
    << [MetaTx |-> MetaTxAt(i),
        Signature |-> SignMetaTx(MetaTxAt(i), 1, FixedDomainSeparator, 0).sig],
       [MetaTx |-> MetaTxAt(i),
        Signature |-> SignMetaTx(MetaTxAt(i), 2, FixedDomainSeparator, 1).sig],
       [MetaTx |-> MetaTxAt(i), Signature |-> ZeroSignature] >>
ReceivedBatches ==
    UNION {{[i \in 1..k |-> RequestsAt(i)[ks[i]]] : ks \in [1..k -> 1..3]} :
              k \in 0..MaxBatch}

InitVerifyBatch ==
    /\ pc = "verifybatch"
    /\ batch \in ReceivedBatches
    /\ ctxDone \in BOOLEAN
    /\ batchArgs = NoBatchArgs
    /\ metaTxs = <<>>
    /\ idx = 0
    /\ expectedStartNonce = U64Zero
    /\ metaTx = NoMetaTx
    /\ privKey = 1
    /\ chainId = Big(<<1>>)
    /\ verifyingContract = Addr(5)
    /\ domainSeparator = FixedDomainSeparator
    /\ sig = ZeroSignature
    /\ signed = NoSigned
    /\ data = <<>>
    /\ recv = ZeroSignature
    /\ NoEnv
    /\ ret = NoRet

\* VerifyBatchRequests up to its loop: results := make([]bool, len(batchRequests))
CallVerifyBatchRequests ==
    /\ pc = "verifybatch"
    /\ call' = [op |-> "VerifyBatchRequests", ctxDone |-> ctxDone]
    /\ results' = [i \in 1..Len(batch) |-> FALSE]
    /\ idx' = 0
    /\ pc' = "verifyloop"
    /\ UNCHANGED <<cryptoVars, data, recv, batchArgs, metaTxs, batch, ctxDone,
                   expectedStartNonce, now, userPrivKeys, refundReceiver, packed, log, ret>>

\* VerifyBatchRequests as it was before it took a context: the loop never
\* looks at ctx
VerifyBatchLoop_NoPoll ==
    /\ pc = "verifyloop"
    /\ IF idx >= Len(batch)
       THEN /\ ret' = [nil |-> FALSE, results |-> results, err |-> NoError]
            /\ pc' = "batchverified"
            /\ UNCHANGED <<results, idx, log>>
       ELSE LET req == batch[idx + 1]
                r == VerifyMetaTxSignature(req.MetaTx, req.Signature, domainSeparator)
            IN  /\ log' = log \o VerifyMetaTxSignatureCalls(req.MetaTx, domainSeparator)
                /\ IF r.panic
                   THEN /\ ret' = [nil |-> TRUE, results |-> <<>>, err |-> NoError]
                        /\ pc' = "panic"
                        /\ UNCHANGED <<results, idx>>
                   ELSE IF r.err # NoError
                   THEN /\ ret' = [nil |-> TRUE, results |-> <<>>,
                                   err |-> Wrap("failed to verify signature for request",
                                                idx, r.err)]
                        /\ pc' = "verifyfailed"
                        /\ UNCHANGED <<results, idx>>
                   ELSE /\ results' = [results EXCEPT ![idx + 1] = r.valid]
                        /\ idx' = idx + 1
                        /\ UNCHANGED <<pc, ret>>
    /\ UNCHANGED <<cryptoVars, data, recv, batchArgs, metaTxs, batch, ctxDone,
                   expectedStartNonce, now, userPrivKeys, refundReceiver, packed, call>>

\* VerifyBatchRequests treating a signature of another signer as a failure
VerifyBatchLoop_MismatchFails ==
    /\ pc = "verifyloop"
    /\ IF idx >= Len(batch)
       THEN /\ ret' = [nil |-> FALSE, results |-> results, err |-> NoError]
            /\ pc' = "batchverified"
            /\ UNCHANGED <<results, idx, log>>
       ELSE IF ctxDone
       THEN /\ ret' = [nil |-> TRUE, results |-> <<>>, err |-> ErrCanceled]
            /\ pc' = "verifyfailed"
            /\ UNCHANGED <<results, idx, log>>
       ELSE LET req == batch[idx + 1]
                r == VerifyMetaTxSignature(req.MetaTx, req.Signature, domainSeparator)
            IN  /\ log' = log \o VerifyMetaTxSignatureCalls(req.MetaTx, domainSeparator)
                /\ IF r.panic
                   THEN /\ ret' = [nil |-> TRUE, results |-> <<>>, err |-> NoError]
                        /\ pc' = "panic"
                        /\ UNCHANGED <<results, idx>>
                   ELSE IF r.err # NoError \/ ~r.valid
                   THEN /\ ret' = [nil |-> TRUE, results |-> <<>>,
                                   err |-> Wrap("failed to verify signature for request",
                                                idx, r.err)]
                        /\ pc' = "verifyfailed"
                        /\ UNCHANGED <<results, idx>>
                   ELSE /\ results' = [results EXCEPT ![idx + 1] = r.valid]
                        /\ idx' = idx + 1
                        /\ UNCHANGED <<pc, ret>>
    /\ UNCHANGED <<cryptoVars, data, recv, batchArgs, metaTxs, batch, ctxDone,
                   expectedStartNonce, now, userPrivKeys, refundReceiver, packed, call>>

\* VerifyBatchRequests: one iteration of the loop, or the return after it
VerifyBatchLoop ==
    /\ pc = "verifyloop"
    /\ IF idx >= Len(batch)
       THEN /\ ret' = [nil |-> FALSE, results |-> results, err |-> NoError]
            /\ pc' = "batchverified"
            /\ UNCHANGED <<results, idx, log>>
       ELSE IF ctxDone
       THEN /\ ret' = [nil |-> TRUE, results |-> <<>>, err |-> ErrCanceled]
            /\ pc' = "verifyfailed"
            /\ UNCHANGED <<results, idx, log>>
       ELSE LET req == batch[idx + 1]
                r == VerifyMetaTxSignature(req.MetaTx, req.Signature, domainSeparator)
            IN  /\ log' = log \o VerifyMetaTxSignatureCalls(req.MetaTx, domainSeparator)
                /\ IF r.panic
                   THEN /\ ret' = [nil |-> TRUE, results |-> <<>>, err |-> NoError]
                        /\ pc' = "panic"
                        /\ UNCHANGED <<results, idx>>
                   ELSE IF r.err # NoError
                   THEN /\ ret' = [nil |-> TRUE, results |-> <<>>,
                                   err |-> Wrap("failed to verify signature for request",
                                                idx, r.err)]
                        /\ pc' = "verifyfailed"
                        /\ UNCHANGED <<results, idx>>
                   ELSE /\ results' = [results EXCEPT ![idx + 1] = r.valid]
                        /\ idx' = idx + 1
                        /\ UNCHANGED <<pc, ret>>
    /\ UNCHANGED <<cryptoVars, data, recv, batchArgs, metaTxs, batch, ctxDone,
                   expectedStartNonce, now, userPrivKeys, refundReceiver, packed, call>>

\* ---- verification of a request and signature received from elsewhere
ReceivedMetaTxs ==
    {MetaTxAt(1), [MetaTxAt(1) EXCEPT !.From = AddressFromPrivateKey(2)]}

\* signatures made for m by either key, the same with another recovery byte or
\* a zeroed s, a signature made for another request, and bytes that are none
ReceivedSignatures(m) ==
    LET made(k, recid) == SignMetaTx(m, k, FixedDomainSeparator, recid).sig
    IN  {made(k, recid) : k \in Keys, recid \in RecoveryIds}
        \cup {[made(1, 0) EXCEPT !.V = B(v)] : v \in {1, 2, 3, 4, 27, 28, 255}}
        \cup {[made(1, 0) EXCEPT !.S = Zeros(32)]}
        \cup {SignMetaTx(MetaTxAt(2), 1, FixedDomainSeparator, 0).sig}
        \cup {ZeroSignature, [V |-> B(0), R |-> Pattern(0, 32), S |-> Pattern(32, 32)]}

InitVerifyReceived ==
    /\ pc = "verifyreceived"
    /\ metaTx \in ReceivedMetaTxs
    /\ sig \in ReceivedSignatures(metaTx)
    /\ privKey = 1
    /\ chainId = Big(<<1>>)
    /\ verifyingContract = Addr(5)
    /\ domainSeparator = FixedDomainSeparator
    /\ signed = NoSigned
    /\ data = <<>>
    /\ recv = ZeroSignature
    /\ NoBatch
    /\ NoEnv
    /\ ret = NoRet

CallVerifyReceived ==
    /\ pc = "verifyreceived"
    /\ LET r == VerifyMetaTxSignature(metaTx, sig, domainSeparator)
       IN  /\ ret' = r
           /\ pc' = IF r.panic THEN "panic" ELSE "checked"
    /\ log' = log \o VerifyMetaTxSignatureCalls(metaTx, domainSeparator)
    /\ UNCHANGED <<cryptoVars, data, recv, batchVars, opVars, call>>

\* ---- ValidateDeadline
InitDeadline ==
    /\ pc = "deadline"
    /\ now \in Times
    /\ \E d \in {U64Zero, U64(<<1>>), U64Max, SixtySecondsAfter(now)} \cup Times :
         metaTx = [MetaTxAt(1) EXCEPT !.Deadline = d]
    /\ privKey = 1
    /\ chainId = BigNil
    /\ verifyingContract = ZeroAddress
    /\ domainSeparator = <<>>
    /\ sig = ZeroSignature
    /\ signed = NoSigned
    /\ data = <<>>
    /\ recv = ZeroSignature
    /\ NoBatch
    /\ call = NoCall
    /\ log = <<>>
    /\ userPrivKeys = <<>>
    /\ refundReceiver = ZeroAddress
    /\ results = <<>>
    /\ packed = NoPacked
    /\ ret = NoRet

CallValidateDeadline ==
    /\ pc = "deadline"
    /\ ret' = [err |-> ValidateDeadline(metaTx.Deadline, now)]
    /\ pc' = "deadlinechecked"
    /\ UNCHANGED <<cryptoVars, data, recv, batchVars, opVars, call, log>>

\* ---- relay
\* common.Hash{}
ZeroHash == Zeros(HashLength)
\* signedTx.Hash(): the hash of the signed outer transaction
TxHash == [i \in 1..HashLength |-> [t |-> "txhash", v |-> i - 1, pre |-> <<>>]]
\* the error an RPC call returns when it fails
RpcError == ErrorNew("rpc error")

\* a ForwardRequestData addressed to the recipient of the transfer, not to the token
ForwardRequestData_ToRecipient(m, signature, transferData) ==
    [From |-> m.From, To |-> m.To, Value |-> Big(<<>>),
     Gas |-> SetUint64(m.Gas), Deadline |-> SetUint64(m.Deadline),
     Data |-> transferData, Signature |-> ToBytes(signature)]

\* the ForwardRequestData struct built for a request
ForwardRequestData(m, signature, transferData) ==
    [From |-> m.From, To |-> m.Token, Value |-> Big(<<>>),
     Gas |-> SetUint64(m.Gas), Deadline |-> SetUint64(m.Deadline),
     Data |-> transferData, Signature |-> ToBytes(signature)]

\* the requests handed to a relay: every combination of a zero or nonzero
\* address, a nil, zero, negative or positive amount and a deadline
RelayMetaTxs ==
    {NewMetaTx(f, t, k, a, DefaultGas, U64Zero, d) :
        f \in {ZeroAddress, AddressFromPrivateKey(1)}, t \in {ZeroAddress, Addr(1)},
        k \in {ZeroAddress, Addr(3)},
        a \in {BigNil, Big(<<>>), BigNeg(<<1>>), Big(<<1>>), MaxUint256},
        d \in {U64Zero, FirstTime, FarDeadline, U64Max}}

InitRelay ==
    /\ pc = "relay"
    /\ metaTx \in RelayMetaTxs
    /\ now \in Times
    /\ sig = SignMetaTx(MetaTxAt(1), 1, FixedDomainSeparator, 0).sig
    /\ privKey = 1
    /\ chainId = Big(<<1>>)
    /\ verifyingContract = Addr(5)
    /\ domainSeparator = FixedDomainSeparator
    /\ signed = NoSigned
    /\ data = <<>>
    /\ recv = ZeroSignature
    /\ NoBatch
    /\ call = NoCall
    /\ log = <<>>
    /\ userPrivKeys = <<>>
    /\ refundReceiver = ZeroAddress
    /\ results = <<>>
    /\ packed = NoPacked
    /\ ret = NoRet

\* RelayMetaTx without its deadline check
RelayMetaTxPrepare_NoDeadlineCheck(m, signature, unixNow) ==
    LET invalid == validateMetaTx(m)
        transferData == TransferData(m)
    IN  IF invalid # NoError
        THEN [panic |-> FALSE, err |-> Wrap("invalid MetaTx", -1, invalid),
              packed |-> NoPacked]
        ELSE IF transferData.panic
        THEN [panic |-> TRUE, err |-> NoError, packed |-> NoPacked]
        ELSE [panic |-> FALSE, err |-> NoError,
              packed |-> [method |-> "execute",
                          requests |-> << ForwardRequestData(m, signature,
                                                             transferData.data) >>,
                          refundReceiver |-> ZeroAddress, value |-> Big(<<>>)]]

\* RelayMetaTx with the deadline check ahead of validateMetaTx
RelayMetaTxPrepare_DeadlineFirst(m, signature, unixNow) ==
    LET invalid == validateMetaTx(m)
        transferData == TransferData(m)
    IN  IF GtU64(unixNow, m.Deadline)
        THEN [panic |-> FALSE, err |-> ErrExpiredDeadline, packed |-> NoPacked]
        ELSE IF invalid # NoError
        THEN [panic |-> FALSE, err |-> Wrap("invalid MetaTx", -1, invalid),
              packed |-> NoPacked]
        ELSE IF transferData.panic
        THEN [panic |-> TRUE, err |-> NoError, packed |-> NoPacked]
        ELSE IF transferData.err # NoError
        THEN [panic |-> FALSE,
              err |-> Wrap("failed to prepare transfer data", -1, transferData.err),
              packed |-> NoPacked]
        ELSE [panic |-> FALSE, err |-> NoError,
              packed |-> [method |-> "execute",
                          requests |-> << ForwardRequestData(m, signature,
                                                             transferData.data) >>,
                          refundReceiver |-> ZeroAddress, value |-> Big(<<>>)]]

\* RelayMetaTx up to its first RPC call, with unixNow the reading of the clock:
\* validation, the deadline check and the packing of execute(request)
RelayMetaTxPrepare(m, signature, unixNow) ==
    LET invalid == validateMetaTx(m)
        transferData == TransferData(m)
    IN  IF invalid # NoError
        THEN [panic |-> FALSE, err |-> Wrap("invalid MetaTx", -1, invalid),
              packed |-> NoPacked]
        ELSE IF GtU64(unixNow, m.Deadline)
        THEN [panic |-> FALSE, err |-> ErrExpiredDeadline, packed |-> NoPacked]
        ELSE IF transferData.panic
        THEN [panic |-> TRUE, err |-> NoError, packed |-> NoPacked]
        ELSE IF transferData.err # NoError
        THEN [panic |-> FALSE,
              err |-> Wrap("failed to prepare transfer data", -1, transferData.err),
              packed |-> NoPacked]
        ELSE [panic |-> FALSE, err |-> NoError,
              packed |-> [method |-> "execute",
                          requests |-> << ForwardRequestData(m, signature,
                                                             transferData.data) >>,
                          refundReceiver |-> ZeroAddress, value |-> Big(<<>>)]]

CallRelayMetaTx ==
    /\ pc = "relay"
    /\ call' = [op |-> "RelayMetaTx", ctxDone |-> ctxDone]
    /\ LET r == RelayMetaTxPrepare(metaTx, sig, now)
       IN  /\ packed' = r.packed
           /\ pc' = IF r.panic THEN "panic"
                    ELSE IF r.err # NoError THEN "relayfailed" ELSE "gasprice"
           /\ ret' = IF r.panic \/ r.err = NoError THEN ret
                     ELSE [hash |-> ZeroHash, err |-> r.err]
    /\ UNCHANGED <<cryptoVars, data, recv, batchVars, now, userPrivKeys, refundReceiver,
                   results, log>>

\* an RPC call of a relay that is made a second time when it fails
RelayStage_Retry(at, rpc, msg, next) ==
    /\ pc = at
    /\ \E ok \in BOOLEAN :
         IF ok
         THEN /\ log' = Append(log, rpc)
              /\ pc' = next
              /\ ret' = IF next = "relayed" THEN [hash |-> TxHash, err |-> NoError] ELSE ret
         ELSE /\ log' = log \o <<rpc, rpc>>
              /\ pc' = "relayfailed"
              /\ ret' = [hash |-> ZeroHash, err |-> Wrap(msg, -1, RpcError)]
    /\ UNCHANGED <<cryptoVars, data, recv, batchVars, opVars, call>>

\* one RPC call of a relay: it is made once, and it succeeds or fails
RelayStage(at, rpc, msg, next) ==
    /\ pc = at
    /\ log' = Append(log, rpc)
    /\ \E ok \in BOOLEAN :
         IF ok
         THEN /\ pc' = next
              /\ ret' = IF next = "relayed" THEN [hash |-> TxHash, err |-> NoError] ELSE ret
         ELSE /\ pc' = "relayfailed"
              /\ ret' = [hash |-> ZeroHash, err |-> Wrap(msg, -1, RpcError)]
    /\ UNCHANGED <<cryptoVars, data, recv, batchVars, opVars, call>>

SuggestGasPrice ==
    RelayStage("gasprice", "SuggestGasPrice", "failed to get gas price", "relayernonce")

PendingNonceAt ==
    RelayStage("relayernonce", "PendingNonceAt", "failed to get relayer nonce", "estimate")

EstimateGas ==
    RelayStage("estimate", "EstimateGas", "failed to estimate gas", "networkid")

NetworkID ==
    RelayStage("networkid", "NetworkID", "failed to get chain ID", "send")

\* the transaction is signed with the relayer's key and sent
SendTransaction ==
    RelayStage("send", "SendTransaction", "failed to send transaction", "relayed")

\* ---- ValidateBatchFromSameUser
\* a batch put together by the caller, of requests from any users
InitSameUser ==
    /\ pc = "sameuser"
    /\ \E fs \in SeqsUpTo(SignerAddresses \cup {Addr(1)}, MaxBatch) :
         batch = [i \in 1..Len(fs) |->
                    [MetaTx |-> [MetaTxAt(i) EXCEPT !.From = fs[i]],
                     Signature |-> ZeroSignature]]
    /\ batchArgs = NoBatchArgs
    /\ metaTxs = <<>>
    /\ idx = 0
    /\ ctxDone = FALSE
    /\ expectedStartNonce = U64Zero
    /\ metaTx = NoMetaTx
    /\ privKey = 1
    /\ chainId = BigNil
    /\ verifyingContract = ZeroAddress
    /\ domainSeparator = <<>>
    /\ sig = ZeroSignature
    /\ signed = NoSigned
    /\ data = <<>>
    /\ recv = ZeroSignature
    /\ NoEnv
    /\ ret = NoRet

CallValidateBatchFromSameUser ==
    /\ pc = "sameuser"
    /\ ret' = [err |-> ValidateBatchFromSameUser(batch)]
    /\ pc' = "sameuserchecked"
    /\ UNCHANGED <<cryptoVars, data, recv, batchVars, opVars, call, log>>

\* ---- batch relay
\* the i-th request of a batch handed to a relay: valid, or with a zero
\* recipient, a nil amount, a zero deadline or a deadline at the first second
RelayRequestsAt(i) ==
    LET signature == SignMetaTx(MetaTxAt(i), 1, FixedDomainSeparator, 0).sig
    IN  << [MetaTx |-> MetaTxAt(i), Signature |-> signature],
           [MetaTx |-> [MetaTxAt(i) EXCEPT !.To = ZeroAddress], Signature |-> signature],
           [MetaTx |-> [MetaTxAt(i) EXCEPT !.Amount = BigNil], Signature |-> signature],
           [MetaTx |-> [MetaTxAt(i) EXCEPT !.Deadline = U64Zero], Signature |-> signature],
           [MetaTx |-> [MetaTxAt(i) EXCEPT !.Deadline = FirstTime],
            Signature |-> signature] >>
RelayBatches ==
    UNION {{[i \in 1..k |-> RelayRequestsAt(i)[ks[i]]] : ks \in [1..k -> 1..5]} :
              k \in 0..MaxBatch}

InitRelayBatch ==
    /\ pc = "relaybatch"
    /\ batch \in RelayBatches
    /\ refundReceiver = ZeroAddress
    /\ now = FirstTime
    /\ batchArgs = NoBatchArgs
    /\ metaTxs = <<>>
    /\ idx = 0
    /\ ctxDone \in BOOLEAN
    /\ expectedStartNonce = U64Zero
    /\ metaTx = NoMetaTx
    /\ privKey = 1
    /\ chainId = Big(<<1>>)
    /\ verifyingContract = Addr(5)
    /\ domainSeparator = FixedDomainSeparator
    /\ sig = ZeroSignature
    /\ signed = NoSigned
    /\ data = <<>>
    /\ recv = ZeroSignature
    /\ call = NoCall
    /\ log = <<>>
    /\ userPrivKeys = <<>>
    /\ results = <<>>
    /\ packed = NoPacked
    /\ ret = NoRet

\* RelayMetaTxBatch without its check for an empty batch
RelayMetaTxBatchEntry_NoEmptyCheck(op, refund) ==
    /\ pc = "relaybatch"
    /\ call' = [op |-> op, ctxDone |-> ctxDone]
    /\ refundReceiver' = refund
    /\ idx' = 0
    /\ pc' = "relayvalidate"
    /\ UNCHANGED <<cryptoVars, data, recv, batchArgs, metaTxs, batch, ctxDone,
                   expectedStartNonce, now, userPrivKeys, results, packed, log, ret>>

\* RelayMetaTxBatch up to its validation loop, invoked as op with the refund
\* receiver refund
RelayMetaTxBatchEntry(op, refund) ==
    /\ pc = "relaybatch"
    /\ call' = [op |-> op, ctxDone |-> ctxDone]
    /\ refundReceiver' = refund
    /\ idx' = 0
    /\ IF Len(batch) = 0
       THEN /\ ret' = [hash |-> ZeroHash, err |-> Errorf("batch cannot be empty", -1)]
            /\ pc' = "relayfailed"
       ELSE /\ pc' = "relayvalidate"
            /\ UNCHANGED ret
    /\ UNCHANGED <<cryptoVars, data, recv, batchArgs, metaTxs, batch, ctxDone,
                   expectedStartNonce, now, userPrivKeys, results, packed, log>>

CallRelayMetaTxBatch ==
    \E refund \in {ZeroAddress, Addr(2)} : RelayMetaTxBatchEntry("RelayMetaTxBatch", refund)

\* RelayMetaTxBatchAtomic that hands a refund receiver of its own to RelayMetaTxBatch
CallRelayMetaTxBatchAtomic_Refund == RelayMetaTxBatchEntry("RelayMetaTxBatchAtomic", Addr(2))

\* RelayMetaTxBatchAtomic: RelayMetaTxBatch with the zero address as refund receiver
CallRelayMetaTxBatchAtomic == RelayMetaTxBatchEntry("RelayMetaTxBatchAtomic", ZeroAddress)

\* prepareBatchRequests
prepareBatchRequests(batchRequests) ==
    LET transferData(i) == TransferData(batchRequests[i].MetaTx)
        n == Len(batchRequests)
    IN  IF \E i \in 1..n : transferData(i).panic
        THEN [panic |-> TRUE, list |-> <<>>, totalValue |-> BigNil, err |-> NoError]
        ELSE IF \E i \in 1..n : transferData(i).err # NoError
        THEN LET i == CHOOSE k \in 1..n :
                         /\ transferData(k).err # NoError
                         /\ \A j \in 1..(k - 1) : transferData(j).err = NoError
             IN  [panic |-> FALSE, list |-> <<>>, totalValue |-> BigNil,
                  err |-> Wrap("failed to prepare transfer data for request", i - 1,
                               transferData(i).err)]
        ELSE [panic |-> FALSE,
              list |-> [i \in 1..n |->
                          ForwardRequestData(batchRequests[i].MetaTx,
                                             batchRequests[i].Signature,
                                             transferData(i).data)],
              totalValue |-> Big(<<>>),
              err |-> NoError]

\* RelayMetaTxBatch with a poll of the context before each element it validates
RelayBatchLoop_Polls ==
    /\ pc = "relayvalidate"
    /\ IF idx < Len(batch) /\ ctxDone
       THEN /\ ret' = [hash |-> ZeroHash, err |-> ErrCanceled]
            /\ pc' = "relayfailed"
            /\ UNCHANGED <<idx, packed>>
       ELSE IF idx < Len(batch)
       THEN LET req == batch[idx + 1]
                invalid == validateMetaTx(req.MetaTx)
            IN  IF invalid # NoError
                THEN /\ ret' = [hash |-> ZeroHash,
                                err |-> Wrap("invalid MetaTx at index", idx, invalid)]
                     /\ pc' = "relayfailed"
                     /\ UNCHANGED <<idx, packed>>
                ELSE IF GtU64(now, req.MetaTx.Deadline)
                THEN /\ ret' = [hash |-> ZeroHash,
                                err |-> Errorf("request at index has expired deadline", idx)]
                     /\ pc' = "relayfailed"
                     /\ UNCHANGED <<idx, packed>>
                ELSE /\ idx' = idx + 1
                     /\ UNCHANGED <<pc, ret, packed>>
       ELSE LET p == prepareBatchRequests(batch)
            IN  /\ packed' = IF p.panic \/ p.err # NoError THEN packed
                             ELSE [method |-> "executeBatch", requests |-> p.list,
                                   refundReceiver |-> refundReceiver,
                                   value |-> p.totalValue]
                /\ pc' = IF p.panic THEN "panic"
                         ELSE IF p.err # NoError THEN "relayfailed" ELSE "gasprice"
                /\ ret' = IF p.panic \/ p.err = NoError THEN ret
                          ELSE [hash |-> ZeroHash,
                                err |-> Wrap("failed to prepare batch requests", -1, p.err)]
                /\ UNCHANGED idx
    /\ UNCHANGED <<cryptoVars, data, recv, batchArgs, metaTxs, batch, ctxDone,
                   expectedStartNonce, now, userPrivKeys, refundReceiver, results,
                   call, log>>

\* RelayMetaTxBatch: one iteration of the validation loop, or, after it, the
\* packing of executeBatch(requests, refundReceiver)
RelayBatchLoop ==
    /\ pc = "relayvalidate"
    /\ IF idx < Len(batch)
       THEN LET req == batch[idx + 1]
                invalid == validateMetaTx(req.MetaTx)
            IN  IF invalid # NoError
                THEN /\ ret' = [hash |-> ZeroHash,
                                err |-> Wrap("invalid MetaTx at index", idx, invalid)]
                     /\ pc' = "relayfailed"
                     /\ UNCHANGED <<idx, packed>>
                ELSE IF GtU64(now, req.MetaTx.Deadline)
                THEN /\ ret' = [hash |-> ZeroHash,
                                err |-> Errorf("request at index has expired deadline", idx)]
                     /\ pc' = "relayfailed"
                     /\ UNCHANGED <<idx, packed>>
                ELSE /\ idx' = idx + 1
                     /\ UNCHANGED <<pc, ret, packed>>
       ELSE LET p == prepareBatchRequests(batch)
            IN  /\ packed' = IF p.panic \/ p.err # NoError THEN packed
                             ELSE [method |-> "executeBatch", requests |-> p.list,
                                   refundReceiver |-> refundReceiver,
                                   value |-> p.totalValue]
                /\ pc' = IF p.panic THEN "panic"
                         ELSE IF p.err # NoError THEN "relayfailed" ELSE "gasprice"
                /\ ret' = IF p.panic \/ p.err = NoError THEN ret
                          ELSE [hash |-> ZeroHash,
                                err |-> Wrap("failed to prepare batch requests", -1, p.err)]
                /\ UNCHANGED idx
    /\ UNCHANGED <<cryptoVars, data, recv, batchArgs, metaTxs, batch, ctxDone,
                   expectedStartNonce, now, userPrivKeys, refundReceiver, results,
                   call, log>>

\* a second passes while a batch is being validated
Tick ==
    /\ pc = "relayvalidate"
    /\ AddU64(now, 1) \in Times
    /\ now' = AddU64(now, 1)
    /\ UNCHANGED <<pc, cryptoVars, data, recv, batchVars, userPrivKeys, refundReceiver,
                   results, packed, call, log, ret>>

Init ==
    \/ InitSign
    \/ InitSignatureBytes
    \/ InitTransfer
    \/ InitNewBatch
    \/ InitValidate
    \/ InitFromMetaTxs
    \/ InitVerifyBatch
    \/ InitVerifyReceived
    \/ InitDeadline
    \/ InitRelay
    \/ InitSameUser
    \/ InitRelayBatch

Next ==
    \/ CallCreateDomainSeparatorForChain
    \/ CallHashMetaTx
    \/ CallSignMetaTx
    \/ CallVerifyMetaTxSignature
    \/ CallToBytes
    \/ CallFromBytes
    \/ CallTransferData
    \/ CallNewMetaTxBatch
    \/ CallCreateBatchFromSingleUser
    \/ SingleUserLoop
    \/ CtxCancel
    \/ CallValidateBatchNonces
    \/ CallCreateBatchFromMetaTxs
    \/ FromMetaTxsLoop
    \/ CallVerifyBatchRequests
    \/ VerifyBatchLoop
    \/ CallVerifyReceived
    \/ CallValidateDeadline
    \/ CallRelayMetaTx
    \/ SuggestGasPrice
    \/ PendingNonceAt
    \/ EstimateGas
    \/ NetworkID
    \/ SendTransaction
    \/ CallValidateBatchFromSameUser
    \/ CallRelayMetaTxBatch
    \/ CallRelayMetaTxBatchAtomic
    \/ RelayBatchLoop
    \/ Tick

Spec == Init /\ [][Next]_vars

\* ------------------------------------------------------------------ claims
IsValidMetaTx(m) ==
    /\ m.From # ZeroAddress /\ m.To # ZeroAddress /\ m.Token # ZeroAddress
    /\ ~m.Amount.nil /\ ~m.Amount.neg /\ m.Amount.abs # <<>>
    /\ m.Deadline # U64Zero

VerifiedUnchanged ==
    /\ pc = "verified"
    /\ metaTx = signed.metaTx
    /\ domainSeparator = signed.domainSeparator

\* C1: a valid MetaTx signed with the key of its from address verifies, under
\* the same domain separator, as true with no error.
C1_SignThenVerify ==
    (VerifiedUnchanged /\ IsValidMetaTx(metaTx)
        /\ metaTx.From = AddressFromPrivateKey(privKey))
    => (ret.valid = TRUE /\ ret.err = NoError /\ ~ret.panic)

C1_Witness ==
    /\ VerifiedUnchanged /\ IsValidMetaTx(metaTx)
    /\ metaTx.From = AddressFromPrivateKey(privKey)
    /\ sig.V = B(1)
    /\ ret.valid

C3_DomainBinding ==
    (pc = "verified" /\ metaTx = signed.metaTx
        /\ ~chainId.nil /\ ~signed.chainId.nil
        /\ <<chainId, verifyingContract>> # <<signed.chainId, signed.verifyingContract>>)
    => /\ ret.valid = FALSE
       /\ domainSeparator # signed.domainSeparator

C3_Witness ==
    /\ pc = "verified" /\ metaTx = signed.metaTx
    /\ metaTx.From = AddressFromPrivateKey(privKey)
    /\ ~chainId.nil /\ ~signed.chainId.nil
    /\ chainId = signed.chainId
    /\ verifyingContract # signed.verifyingContract
    /\ ret.valid = FALSE /\ ret.err = NoError

\* C4: ToBytes gives 65 bytes r || s || v, and FromBytes of them succeeds and
\* gives back every field.
C4_SignatureRoundTrip ==
    /\ (pc = "frombytes" /\ "bytes" \in DOMAIN ret)
        => /\ Len(ret.bytes) = 65
           /\ SubSeq(ret.bytes, 1, 32) = sig.R
           /\ SubSeq(ret.bytes, 33, 64) = sig.S
           /\ ret.bytes[65] = sig.V
    /\ (pc = "parsed" /\ data = ToBytes(sig))
        => /\ ret.err = NoError
           /\ recv = sig

C4_Witness ==
    /\ pc = "parsed"
    /\ sig.V = B(27) /\ sig.R = Pattern(0, 32)
    /\ recv = sig
    /\ ret.err = NoError

\* C5: FromBytes succeeds exactly on 65 bytes; on any other length it returns
\* ErrInvalidSignatureLength and leaves the receiver as it was.
C5_FromBytesLength ==
    [][(pc = "frombytes" /\ pc' = "parsed")
        => /\ (ret'.err = NoError) <=> (Len(data) = 65)
           /\ Len(data) # 65 => (ret'.err = ErrInvalidSignatureLength /\ recv' = recv)]_vars

C5_Witness ==
    /\ pc = "parsed" /\ Len(data) = 66
    /\ recv.V = B(27)
    /\ ret.err = ErrInvalidSignatureLength

LeftPad32(addr) == Zeros(12) \o addr

\* C7: the domain separator is the hash of five 32-byte words: the type hash,
\* keccak256(name), keccak256(version), the chain id and the verifying
\* contract left-padded to 32 bytes.
C7_DomainPreimage ==
    (pc = "sign" /\ ~chainId.nil)
    => /\ Len(Preimage(domainSeparator)) = 160
       /\ Preimage(domainSeparator) =
            Keccak256(Bytes(EIP712_DOMAIN_TYPEHASH)) \o Keccak256(Bytes(ForwarderName))
              \o Keccak256(Bytes(ForwarderVersion))
              \o Zeros(32 - Len(chainId.abs)) \o Bytes(chainId.abs)
              \o LeftPad32(verifyingContract)

\* C8: the struct hash is the hash of eight 32-byte words (type hash, from and
\* token left-padded, zero value, gas, nonce, deadline, hash of the transfer
\* calldata), and the digest the hash of 0x19 0x01, the separator and the
\* struct hash.
C8_StructHashPreimage ==
    (pc = "hashed" /\ Len(domainSeparator) = 32)
    => LET digestInput == Preimage(ret.hash)
           structHash == SubSeq(digestInput, 35, 66)
       IN  /\ Len(digestInput) = 66
           /\ SubSeq(digestInput, 1, 2) = << B(25), B(1) >>
           /\ SubSeq(digestInput, 3, 34) = domainSeparator
           /\ Len(Preimage(structHash)) = 256
           /\ Preimage(structHash) =
                Keccak256(Bytes(FORWARD_REQUEST_TYPEHASH))
                  \o LeftPad32(metaTx.From) \o LeftPad32(metaTx.Token) \o Zeros(32)
                  \o Zeros(24) \o Bytes(metaTx.Gas) \o Zeros(24) \o Bytes(metaTx.Nonce)
                  \o Zeros(24) \o Bytes(metaTx.Deadline)
                  \o Keccak256(TransferData(metaTx).data)

\* x + 1 on a natural number in big-endian bytes without leading zeros
RECURSIVE IncNat(_)
IncNat(ns) ==
    IF ns = <<>> THEN <<1>>
    ELSE LET n == Len(ns)
             hi == SubSeq(ns, 1, n - 1)
         IN IF ns[n] < 255 THEN hi \o << ns[n] + 1 >>
            ELSE IncNat(hi) \o << 0 >>

\* the natural number x + i, for a uint64 x
RECURSIVE NatAdd(_, _)
NatAdd(ns, i) == IF i = 0 THEN ns ELSE NatAdd(IncNat(ns), i - 1)
NatOfU64(x) == StripZeros(x)
NatSum(x, i) == NatAdd(NatOfU64(x), i)

\* a natural number modulo 2^64, as a uint64
Mod64(ns) == IF Len(ns) > 8 THEN SubSeq(ns, Len(ns) - 7, Len(ns)) ELSE U64(ns)

Min(S) == CHOOSE x \in S : \A y \in S : x <= y

BatchBuilt == pc = "batchsign"
BatchBuiltAndValidated ==
    /\ pc = "validated"
    /\ batchArgs # NoBatchArgs
    /\ expectedStartNonce = batchArgs.startingNonce

\* C9 as stated: metaTx[i].nonce is the number N + i.
C9_BatchNoncesExact ==
    BatchBuilt
    => /\ Len(metaTxs) = Len(batchArgs.recipients)
       /\ \A i \in 1..Len(metaTxs) :
            /\ metaTxs[i].To = batchArgs.recipients[i]
            /\ metaTxs[i].Amount = batchArgs.amounts[i]
            /\ NatOfU64(metaTxs[i].Nonce) = NatSum(batchArgs.startingNonce, i - 1)

\* C9: NewMetaTxBatch returns one MetaTx per recipient, in order, with the
\* recipient, the amount and the nonce (N + i) mod 2^64, and the batch signed
\* from them passes ValidateBatchNonces(batch, N).
C9_BatchNonces ==
    /\ BatchBuilt
        => /\ Len(metaTxs) = Len(batchArgs.recipients)
           /\ \A i \in 1..Len(metaTxs) :
                /\ metaTxs[i].To = batchArgs.recipients[i]
                /\ metaTxs[i].Amount = batchArgs.amounts[i]
                /\ metaTxs[i].Nonce = Mod64(NatSum(batchArgs.startingNonce, i - 1))
    /\ BatchBuiltAndValidated
        => /\ ret.err = NoError
           /\ Len(batch) = Len(batchArgs.recipients)
           /\ \A i \in 1..Len(batch) : batch[i].MetaTx = metaTxs[i]

C9_Witness ==
    /\ BatchBuiltAndValidated
    /\ batchArgs.startingNonce = U64(<<7>>)
    /\ Len(batch) = 2
    /\ batch[1].MetaTx.Nonce = U64(<<7>>) /\ batch[2].MetaTx.Nonce = U64(<<8>>)
    /\ batch[1].MetaTx.To # batch[2].MetaTx.To
    /\ ret.err = NoError

MismatchesExact == {i \in 1..Len(batch) :
    NatOfU64(batch[i].MetaTx.Nonce) # NatSum(expectedStartNonce, i - 1)}
MismatchesMod64 == {i \in 1..Len(batch) :
    batch[i].MetaTx.Nonce # Mod64(NatSum(expectedStartNonce, i - 1))}

BatchOps == {"CreateBatchFromSingleUser", "CreateBatchFromMetaTxs", "VerifyBatchRequests"}

\* the batch operation that was invoked has returned, and its result is in ret
BatchOpReturned ==
    /\ call.op \in BatchOps
    /\ pc \in {"validate", "failed", "zipped", "zipfailed", "batchverified", "verifyfailed"}
    /\ call.op = "CreateBatchFromMetaTxs" => Len(metaTxs) = Len(userPrivKeys)

\* the number of elements the operation was given
InputLen == IF call.op = "VerifyBatchRequests" THEN Len(batch) ELSE Len(metaTxs)

\* C11 as stated: invoked with a cancelled ctx, the batch operations return
\* the cancellation error for every input, without a call to crypto.
C11_CancelledForEveryBatch ==
    (BatchOpReturned /\ call.ctxDone)
    => (ret.err = ErrCanceled /\ ret.nil /\ log = <<>>)

\* C11: invoked with a cancelled ctx, CreateBatchFromSingleUser,
\* CreateBatchFromMetaTxs (equal lengths) and VerifyBatchRequests never call
\* crypto.Sign or crypto.SigToPub; on a batch of at least one element they
\* return nil and the cancellation error, on an empty batch an empty result
\* and no error.
C11_CancelledUpFront ==
    (BatchOpReturned /\ call.ctxDone)
    => /\ log = <<>>
       /\ InputLen > 0 => (ret.err = ErrCanceled /\ ret.nil)
       /\ InputLen = 0 => (ret.err = NoError /\ ~ret.nil)

C11_Witness ==
    /\ BatchOpReturned /\ call.ctxDone
    /\ call.op = "VerifyBatchRequests"
    /\ Len(batch) = 2
    /\ batch[1].Signature # ZeroSignature
    /\ ret.err = ErrCanceled /\ log = <<>>

\* what the recovery primitive does with the digest and signature at hand
Recovery == RecoverAddress(HashMetaTx(metaTx, domainSeparator).hash, ToBytes(sig))

\* C12: VerifyMetaTxSignature returns (false, nil) when recovery succeeds with
\* an address other than from, (true, nil) when it succeeds with from, and an
\* error exactly when the recovery primitive rejects the signature.
C12_ResultOrError ==
    pc \in {"verified", "checked"}
    => /\ (Recovery.err = NoError /\ Recovery.addr # metaTx.From)
            => (ret.valid = FALSE /\ ret.err = NoError)
       /\ (Recovery.err = NoError /\ Recovery.addr = metaTx.From)
            => (ret.valid = TRUE /\ ret.err = NoError)
       /\ (ret.err # NoError) <=> (Recovery.err # NoError)
       /\ Recovery.err # NoError
            => /\ ret.err = Wrap("failed to recover public key", -1, Recovery.err)
               /\ ret.valid = FALSE

C12_Witness ==
    /\ pc = "checked"
    /\ metaTx.From = AddressFromPrivateKey(1)
    /\ sig = [SignMetaTx(metaTx, 1, domainSeparator, 0).sig EXCEPT !.V = B(1)]
    /\ ret.valid = FALSE /\ ret.err = NoError

\* RelayMetaTx has run up to its first RPC call
RelayEntered == call.op = "RelayMetaTx" /\ log = <<>>

\* the error RelayMetaTx returns when validateMetaTx returns err
InvalidMetaTx(err) == Wrap("invalid MetaTx", -1, err)
ValidationFailed == Len(ret.err) > 0 /\ ret.err[1].msg = "invalid MetaTx"

HasZeroAddress(m) == m.From = ZeroAddress \/ m.To = ZeroAddress \/ m.Token = ZeroAddress
IsPositive(x) == ~x.nil /\ ~x.neg /\ x.abs # <<>>

\* C13: validateMetaTx returns nil exactly when from, to and token are nonzero,
\* the amount is non-nil and positive and the deadline is nonzero; it returns
\* ErrZeroAddress for a zero address, else ErrInvalidAmount for a nil or
\* non-positive amount, else ErrExpiredDeadline for a zero deadline.
C13_ValidateMetaTx ==
    RelayEntered
    => /\ ~ValidationFailed
            <=> (~HasZeroAddress(metaTx) /\ IsPositive(metaTx.Amount)
                    /\ metaTx.Deadline # U64Zero)
       /\ HasZeroAddress(metaTx) => ret.err = InvalidMetaTx(ErrZeroAddress)
       /\ (~HasZeroAddress(metaTx) /\ ~IsPositive(metaTx.Amount))
            => ret.err = InvalidMetaTx(ErrInvalidAmount)
       /\ (~HasZeroAddress(metaTx) /\ IsPositive(metaTx.Amount)
                /\ metaTx.Deadline = U64Zero)
            => ret.err = InvalidMetaTx(ErrExpiredDeadline)

C13_Witness ==
    /\ RelayEntered
    /\ ~HasZeroAddress(metaTx)
    /\ metaTx.Amount = Big(<<>>)
    /\ metaTx.Deadline = U64Zero
    /\ ret.err = InvalidMetaTx(ErrInvalidAmount)

\* a <= b on uint64, byte by byte from the most significant
LeU64(a, b) ==
    \/ a = b
    \/ LET i == Min({k \in 1..8 : a[k] # b[k]}) IN a[i] < b[i]

\* C14: ValidateDeadline(d) returns nil exactly when now <= d and
\* ErrExpiredDeadline otherwise, so it fails for 0 and succeeds for now + 60;
\* RelayMetaTx, once validation has passed, rejects exactly when now > d.
C14_DeadlineBoundary ==
    /\ pc = "deadlinechecked"
        => /\ (ret.err = NoError) <=> LeU64(now, metaTx.Deadline)
           /\ ret.err \in {NoError, ErrExpiredDeadline}
           /\ metaTx.Deadline = U64Zero => ret.err = ErrExpiredDeadline
           /\ metaTx.Deadline = SixtySecondsAfter(now) => ret.err = NoError
    /\ (RelayEntered /\ ~ValidationFailed)
        => /\ (ret.err = ErrExpiredDeadline) <=> ~LeU64(now, metaTx.Deadline)
           /\ LeU64(now, metaTx.Deadline) => pc = "gasprice"

C14_Witness ==
    /\ pc = "deadlinechecked"
    /\ metaTx.Deadline = now
    /\ ret.err = NoError

\* CreateBatchFromMetaTxs has gone through its loop without a cancellation,
\* with keys the signing primitive accepts
FromMetaTxsReturned ==
    /\ call.op = "CreateBatchFromMetaTxs"
    /\ pc \in {"zipped", "zipfailed"}
    /\ Len(metaTxs) = Len(userPrivKeys)
    /\ \A i \in 1..Len(userPrivKeys) : userPrivKeys[i] \in Keys
    /\ ~ctxDone

\* C15 as stated: signing a MetaTx whose deadline has passed fails with
\* ErrExpiredDeadline and produces no signature.
C15_SigningRejectsExpired ==
    (FromMetaTxsReturned /\ Len(metaTxs) > 0 /\ ~LeU64(now, metaTxs[1].Deadline))
    => (ErrorsIs(ret.err, ErrExpiredDeadline) /\ ret.nil)

\* C15: relaying a valid MetaTx whose deadline has passed fails with
\* ErrExpiredDeadline, the zero hash and nothing packed; signing does not look
\* at the clock: every MetaTx, expired or not, is signed.
C15_ExpiredAtRelayOnly ==
    /\ (RelayEntered /\ ~ValidationFailed /\ ~LeU64(now, metaTx.Deadline))
        => /\ pc = "relayfailed"
           /\ ret = [hash |-> ZeroHash, err |-> ErrExpiredDeadline]
           /\ packed = NoPacked
    /\ FromMetaTxsReturned
        => /\ pc = "zipped"
           /\ ret.err = NoError
           /\ Len(batch) = Len(metaTxs)
           /\ \A i \in 1..Len(batch) :
                /\ batch[i].MetaTx = metaTxs[i]
                /\ IsSignedPair(batch[i].Signature.R, batch[i].Signature.S)

C15_Witness ==
    /\ FromMetaTxsReturned
    /\ Len(batch) = 1
    /\ ~LeU64(now, batch[1].MetaTx.Deadline)
    /\ IsSignedPair(batch[1].Signature.R, batch[1].Signature.S)
    /\ ret.err = NoError

\* NewMetaTxBatch has returned and its result is in ret
NewMetaTxBatchReturned ==
    /\ batchArgs # NoBatchArgs
    /\ call.op = ""
    /\ pc \in {"batchsign", "failed"}

\* C16: NewMetaTxBatch fails with the length-mismatch error and no list when
\* recipients and amounts differ in length, and CreateBatchFromMetaTxs when
\* metaTxs and userPrivKeys do, before it polls ctx or signs anything.
C16_LengthMismatch ==
    /\ NewMetaTxBatchReturned
        => /\ Len(batchArgs.recipients) # Len(batchArgs.amounts)
                => /\ pc = "failed"
                   /\ ret.nil /\ ret.metaTxs = <<>>
                   /\ ret.err = Errorf("recipients and amounts length mismatch", -1)
           /\ Len(batchArgs.recipients) = Len(batchArgs.amounts)
                => (ret.err = NoError /\ ~ret.nil)
    /\ (call.op = "CreateBatchFromMetaTxs" /\ Len(metaTxs) # Len(userPrivKeys))
        => /\ pc = "zipfailed"
           /\ ret.nil /\ ret.batch = <<>>
           /\ ret.err = Errorf("metaTxs and userPrivKeys length mismatch", -1)
           /\ log = <<>>

C16_Witness ==
    /\ call = [op |-> "CreateBatchFromMetaTxs", ctxDone |-> TRUE]
    /\ Len(metaTxs) = 2 /\ Len(userPrivKeys) = 1
    /\ ret.nil
    /\ ret.err = Errorf("metaTxs and userPrivKeys length mismatch", -1)

\* the indices (from 1) of the requests whose from differs from the first one's
OtherUsers == {i \in 1..Len(batch) : batch[i].MetaTx.From # batch[1].MetaTx.From}

\* C17: ValidateBatchFromSameUser returns nil exactly when every request's from
\* equals that of the first request, so for the empty batch and any batch of
\* one; otherwise its error names the lowest index whose from differs.
C17_SameUser ==
    pc = "sameuserchecked"
    => /\ (ret.err = NoError) <=> (OtherUsers = {})
       /\ Len(batch) <= 1 => ret.err = NoError
       /\ OtherUsers # {}
            => ret.err = Errorf("request at index has different from address",
                                Min(OtherUsers) - 1)

C17_Witness ==
    /\ pc = "sameuserchecked"
    /\ Len(batch) = 3
    /\ batch[2].MetaTx.From = batch[1].MetaTx.From
    /\ batch[3].MetaTx.From # batch[1].MetaTx.From
    /\ ret.err = Errorf("request at index has different from address", 2)

\* C18: RelayMetaTx validates the request and then checks the deadline before
\* anything else; when either fails it returns that error (the validation
\* error first) with the zero hash, and nothing was packed and no RPC call made
C18_RelayFailFast ==
    call.op = "RelayMetaTx" =>
        LET invalid == validateMetaTx(metaTx)
            expired == GtU64(now, metaTx.Deadline)
        IN  /\ invalid # NoError =>
                /\ pc = "relayfailed"
                /\ ret = [hash |-> ZeroHash, err |-> Wrap("invalid MetaTx", -1, invalid)]
            /\ (invalid = NoError /\ expired) =>
                /\ pc = "relayfailed"
                /\ ret = [hash |-> ZeroHash, err |-> ErrExpiredDeadline]
            /\ (invalid # NoError \/ expired) =>
                /\ log = <<>>
                /\ packed = NoPacked

\* a request that is both invalid and past its deadline was refused as invalid
C18_Witness ==
    /\ call.op = "RelayMetaTx"
    /\ pc = "relayfailed"
    /\ metaTx.To = ZeroAddress
    /\ metaTx.Deadline # U64Zero
    /\ GtU64(now, metaTx.Deadline)
    /\ ErrorsIs(ret.err, ErrZeroAddress)
    /\ ret.hash = ZeroHash
    /\ log = <<>>

RelayOps == {"RelayMetaTx", "RelayMetaTxBatch", "RelayMetaTxBatchAtomic"}

\* the RPC stages of a relay in their order, and the tag of each stage's error
RpcStages == <<"SuggestGasPrice", "PendingNonceAt", "EstimateGas", "NetworkID",
               "SendTransaction">>
StageTags == <<"failed to get gas price", "failed to get relayer nonce",
               "failed to estimate gas", "failed to get chain ID",
               "failed to send transaction">>

\* C19: a relay makes its RPC calls in the order gas price, pending nonce,
\* estimate gas, chain id, send, each at most once and only after validation
\* and packing; a failed call is the last one made and returns the zero hash
\* with an error tagged with its stage; a nonzero hash is returned only after
\* all five calls, the send included, succeeded
C19_StageOrder ==
    call.op \in RelayOps =>
        /\ Len(log) <= Len(RpcStages)
        /\ \A i \in 1..Len(log) : log[i] = RpcStages[i]
        /\ log # <<>> => packed # NoPacked
        /\ (pc = "relayfailed" /\ log # <<>>) =>
              ret = [hash |-> ZeroHash, err |-> Wrap(StageTags[Len(log)], -1, RpcError)]
        /\ pc = "relayed" =>
              /\ log = RpcStages
              /\ ret = [hash |-> TxHash, err |-> NoError]
        /\ (pc \in {"relayfailed", "relayed"} /\ ret.hash # ZeroHash) =>
              /\ pc = "relayed"
              /\ log = RpcStages
        /\ pc \in {"relayfailed", "relayed", "panic", "relayvalidate", "gasprice",
                   "relayernonce", "estimate", "networkid", "send"}
        /\ pc \in {"gasprice", "relayernonce", "estimate", "networkid", "send"} =>
              /\ pc = <<"gasprice", "relayernonce", "estimate", "networkid",
                        "send">>[Len(log) + 1]

\* a batch relay whose gas estimation failed: two calls before it, none after
C19_Witness ==
    /\ call.op = "RelayMetaTxBatch"
    /\ Len(batch) = 2
    /\ pc = "relayfailed"
    /\ log = <<"SuggestGasPrice", "PendingNonceAt", "EstimateGas">>
    /\ ret.hash = ZeroHash
    /\ ErrorsIs(ret.err, RpcError)

\* C20: RelayMetaTxBatch and RelayMetaTxBatchAtomic return the zero hash and
\* the empty-batch error for a batch of no requests, without validating or
\* packing anything and without an RPC call; a batch with requests never gets
\* that error
C20_EmptyBatch ==
    call.op \in {"RelayMetaTxBatch", "RelayMetaTxBatchAtomic"} =>
        /\ Len(batch) = 0 =>
              /\ pc = "relayfailed"
              /\ ret = [hash |-> ZeroHash, err |-> Errorf("batch cannot be empty", -1)]
              /\ idx = 0
              /\ packed = NoPacked
              /\ log = <<>>
        /\ (Len(batch) > 0 /\ pc \in {"relayfailed", "relayed"}) =>
              ret.err # Errorf("batch cannot be empty", -1)

\* the atomic variant was handed an empty batch and has returned
C20_Witness ==
    /\ call.op = "RelayMetaTxBatchAtomic"
    /\ batch = <<>>
    /\ pc = "relayfailed"
    /\ ret.hash = ZeroHash
    /\ ret.err # NoError
    /\ log = <<>>

\* C21: RelayMetaTxBatchAtomic is RelayMetaTxBatch with the zero address as
\* refund receiver: the refund receiver it relays with is 0x0, what it packs is
\* executeBatch(requests, 0x0) with the requests RelayMetaTxBatch prepares, an
\* empty batch or a bad element ends it with the error RelayMetaTxBatch gives
\* and no RPC call, and its RPC calls and its result are those of the batch relay
C21_AtomicIsBatch ==
    call.op = "RelayMetaTxBatchAtomic" =>
        /\ refundReceiver = ZeroAddress
        /\ packed \in {NoPacked,
                       [method |-> "executeBatch",
                        requests |-> prepareBatchRequests(batch).list,
                        refundReceiver |-> ZeroAddress,
                        value |-> Big(<<>>)]}
        /\ (packed = NoPacked) = (pc \in {"relayvalidate", "panic"}
                                    \/ (pc = "relayfailed" /\ log = <<>>))
        /\ (pc = "relayfailed" /\ log = <<>>) =>
              /\ ret.hash = ZeroHash
              /\ \/ Len(batch) = 0 /\ ret.err = Errorf("batch cannot be empty", -1)
                 \/ /\ idx < Len(batch)
                    /\ validateMetaTx(batch[idx + 1].MetaTx) # NoError
                    /\ ret.err = Wrap("invalid MetaTx at index", idx,
                                      validateMetaTx(batch[idx + 1].MetaTx))
                 \/ /\ idx < Len(batch)
                    /\ validateMetaTx(batch[idx + 1].MetaTx) = NoError
                    /\ GtU64(now, batch[idx + 1].MetaTx.Deadline)
                    /\ ret.err = Errorf("request at index has expired deadline", idx)
        /\ (pc = "relayfailed" /\ log # <<>>) =>
              ret = [hash |-> ZeroHash, err |-> Wrap(StageTags[Len(log)], -1, RpcError)]
        /\ pc = "relayed" => (log = RpcStages /\ ret = [hash |-> TxHash, err |-> NoError])

\* the atomic variant has sent a batch of two requests
C21_Witness ==
    /\ call.op = "RelayMetaTxBatchAtomic"
    /\ Len(batch) = 2
    /\ pc = "relayed"
    /\ packed.refundReceiver = ZeroAddress
    /\ Len(packed.requests) = 2
    /\ log = RpcStages
    /\ ret.hash = TxHash

\* C22: CreateBatchFromSingleUser, CreateBatchFromMetaTxs and
\* VerifyBatchRequests poll the cancellation signal before each element: a loop
\* that is about to handle element idx and finds the signal cancelled returns
\* nil and the cancellation error, makes no call to crypto for that element or
\* a later one, and hands back no partial batch and no partial result vector
C22_CancelledBetweenElements ==
    [][(pc \in {"signloop", "ziploop", "verifyloop"} /\ ctxDone /\ idx < InputLen)
          => /\ pc' \in {"failed", "zipfailed", "verifyfailed"}
             /\ ret'.err = ErrCanceled
             /\ ret'.nil
             /\ IF call.op = "VerifyBatchRequests"
                THEN ret'.results = <<>>
                ELSE ret'.batch = <<>> /\ batch' = <<>>
             /\ log' = log
             /\ idx' = idx]_vars

\* CreateBatchFromMetaTxs signed its first element, was cancelled, and returned
\* before the second
C22_Witness ==
    /\ call.op = "CreateBatchFromMetaTxs"
    /\ ~call.ctxDone
    /\ pc = "zipfailed"
    /\ ret.err = ErrCanceled
    /\ idx = 1
    /\ Len(metaTxs) >= 2
    /\ log = SignMetaTxCalls(metaTxs[1], domainSeparator)

C24_IndexAndKind ==
    (call.op \in {"RelayMetaTxBatch", "RelayMetaTxBatchAtomic"}
       /\ pc = "relayfailed" /\ log = <<>> /\ idx < Len(batch))
    => /\ ret.hash = ZeroHash
       /\ packed = NoPacked
       /\ \A i \in 1..idx :
            /\ validateMetaTx(batch[i].MetaTx) = NoError
            /\ ~GtU64(FirstTime, batch[i].MetaTx.Deadline)
       /\ ret.err[1].index = idx
       /\ IF validateMetaTx(batch[idx + 1].MetaTx) # NoError
          THEN /\ validateMetaTx(batch[idx + 1].MetaTx) \in {ErrZeroAddress, ErrInvalidAmount,
                                                                 ErrExpiredDeadline}
               /\ ErrorsIs(ret.err, validateMetaTx(batch[idx + 1].MetaTx))
          ELSE /\ GtU64(now, batch[idx + 1].MetaTx.Deadline)
               /\ ErrorsIs(ret.err, ErrExpiredDeadline)

\* the key CreateBatchFromSingleUser / CreateBatchFromMetaTxs signs element i with
SigningKeyOf(i) ==
    IF call.op = "CreateBatchFromSingleUser" THEN privKey ELSE userPrivKeys[i]

\* C25: the batch signing operations sign in ascending index order: while and
\* after they run, elements 1..idx of the batch are the input MetaTxs in input
\* order, each with a signature of it under the single key / under
\* privKeys[i], one crypto.Sign call each, and no later element is signed; on
\* success the batch has the input's length; a failure names the first failing
\* index, signs nothing after it and returns no batch; the requests packed
\* into executeBatch are the batch's requests in submission order
C25_SigningOrder ==
    /\ (call.op \in {"CreateBatchFromSingleUser", "CreateBatchFromMetaTxs"}
          /\ pc \in {"signloop", "ziploop", "validate", "zipped"})
       => /\ Len(batch) = Len(metaTxs)
          /\ idx <= Len(metaTxs)
          /\ \A i \in 1..idx :
               /\ batch[i].MetaTx = metaTxs[i]
               /\ \E recid \in RecoveryIds :
                    batch[i].Signature
                      = SignMetaTx(metaTxs[i], SigningKeyOf(i), domainSeparator, recid).sig
          /\ \A i \in (idx + 1)..Len(metaTxs) : batch[i] = ZeroBatchRequest
          /\ log = [i \in 1..idx |-> "crypto.Sign"]
          /\ pc \in {"validate", "zipped"} =>
               /\ idx = Len(metaTxs)
               /\ ret = [nil |-> FALSE, batch |-> batch, err |-> NoError]
    /\ (call.op \in {"CreateBatchFromSingleUser", "CreateBatchFromMetaTxs"}
          /\ pc \in {"failed", "zipfailed"}
          /\ ret.err # ErrCanceled
          /\ Len(metaTxs) = (IF call.op = "CreateBatchFromMetaTxs"
                             THEN Len(userPrivKeys) ELSE Len(metaTxs)))
       => /\ ret.nil /\ ret.batch = <<>>
          /\ idx < Len(metaTxs)
          /\ ret.err[1] = [msg |-> "failed to create batch request at index", index |-> idx]
          /\ \A i \in 1..idx :
               CreateBatchRequest(metaTxs[i], SigningKeyOf(i), domainSeparator, 0).err = NoError
          /\ CreateBatchRequest(metaTxs[idx + 1], SigningKeyOf(idx + 1),
                                domainSeparator, 0).err # NoError
          /\ log = [i \in 1..(idx + 1) |-> "crypto.Sign"]
    /\ (call.op \in {"RelayMetaTxBatch", "RelayMetaTxBatchAtomic"} /\ packed # NoPacked)
       => /\ Len(packed.requests) = Len(batch)
          /\ \A i \in 1..Len(batch) :
               packed.requests[i]
                 = ForwardRequestData(batch[i].MetaTx, batch[i].Signature,
                                      TransferData(batch[i].MetaTx).data)

\* CreateBatchFromMetaTxs returned a batch of two requests signed with two
\* different keys
C25_Witness ==
    /\ call.op = "CreateBatchFromMetaTxs"
    /\ pc = "zipped"
    /\ Len(metaTxs) = 2
    /\ userPrivKeys[1] # userPrivKeys[2]
    /\ ret.batch[2].MetaTx = metaTxs[2]
    /\ ret.batch[1].Signature # ret.batch[2].Signature

\* CreateBatchFromMetaTxs signed its first element and was refused the second
\* key by the signing primitive: it returned no batch and did not sign the third
C25_FailureWitness ==
    /\ call.op = "CreateBatchFromMetaTxs"
    /\ pc = "zipfailed"
    /\ Len(metaTxs) = 3
    /\ idx = 1
    /\ ret.nil
    /\ ret.err[1] = [msg |-> "failed to create batch request at index", index |-> 1]
    /\ Len(log) = 2

\* what VerifyMetaTxSignature gives for element i of the batch at hand
VerifiedAt(i) ==
    VerifyMetaTxSignature(batch[i].MetaTx, batch[i].Signature, domainSeparator)

\* C26: VerifyBatchRequests, not cancelled, fills a vector of the batch's
\* length with results[i] = VerifyMetaTxSignature(batch[i]) in order and
\* returns it; a signature of another signer gives false at its index and the
\* run goes on; a signature the recovery rejects at index i ends the run with
\* an error naming i and no vector
C26_VerifyBatch ==
    call.op = "VerifyBatchRequests" =>
        /\ pc \in {"verifyloop", "batchverified"} =>
              /\ Len(results) = Len(batch)
              /\ idx <= Len(batch)
              /\ \A i \in 1..idx :
                   /\ VerifiedAt(i).err = NoError
                   /\ results[i] = VerifiedAt(i).valid
              /\ log = [i \in 1..idx |-> "crypto.SigToPub"]
        /\ pc = "batchverified" =>
              /\ idx = Len(batch)
              /\ ret = [nil |-> FALSE, results |-> results, err |-> NoError]
        /\ (pc = "verifyfailed" /\ ret.err # ErrCanceled) =>
              /\ idx < Len(batch)
              /\ \A i \in 1..idx : VerifiedAt(i).err = NoError
              /\ VerifiedAt(idx + 1).err # NoError
              /\ ret = [nil |-> TRUE, results |-> <<>>,
                        err |-> Wrap("failed to verify signature for request", idx,
                                     VerifiedAt(idx + 1).err)]

\* a batch of a good signature and a signature by another key was verified:
\* true and false, no error
C26_Witness ==
    /\ call.op = "VerifyBatchRequests"
    /\ pc = "batchverified"
    /\ Len(batch) = 2
    /\ ret.results = <<TRUE, FALSE>>
    /\ ret.err = NoError

\* the recovery rejected the second of three signatures
C26_FailureWitness ==
    /\ call.op = "VerifyBatchRequests"
    /\ pc = "verifyfailed"
    /\ Len(batch) = 3
    /\ idx = 1
    /\ ret.err[1] = [msg |-> "failed to verify signature for request", index |-> 1]
    /\ ret.nil

\* the MetaTx and signature a relay was given for the request at position i
RelayedRequest(i) ==
    IF call.op = "RelayMetaTx" THEN [MetaTx |-> metaTx, Signature |-> sig] ELSE batch[i]

\* the calldata whose hash HashMetaTx puts in the struct it hashes: the
\* preimage of the last word of the preimage of the struct hash
HashedCalldata(m) ==
    LET digest == HashMetaTx(m, domainSeparator).hash[1].pre
        structHash == SubSeq(digest, Len(digest) - 31, Len(digest))
        structData == structHash[1].pre
        dataHash == SubSeq(structData, Len(structData) - 31, Len(structData))
    IN  dataHash[1].pre

\* C27: every ForwardRequestData a relay packs has from = MetaTx.From, to =
\* MetaTx.Token, value 0, gas = MetaTx.Gas, deadline = MetaTx.Deadline and as
\* data the transfer calldata HashMetaTx hashes for that MetaTx; its signature
\* is the 65 bytes r || s || v of the Signature given; the transaction around
\* it carries value 0
C27_SigningRelayConsistency ==
    (call.op \in RelayOps /\ packed # NoPacked) =>
        /\ packed.value = Big(<<>>)
        /\ Len(packed.requests) = (IF call.op = "RelayMetaTx" THEN 1 ELSE Len(batch))
        /\ \A i \in 1..Len(packed.requests) :
             LET r == packed.requests[i]
                 m == RelayedRequest(i).MetaTx
                 signature == RelayedRequest(i).Signature
             IN  /\ r.From = m.From
                 /\ r.To = m.Token
                 /\ r.Value = Big(<<>>)
                 /\ r.Gas = SetUint64(m.Gas)
                 /\ r.Deadline = SetUint64(m.Deadline)
                 /\ r.Data = HashedCalldata(m)
                 /\ r.Data = TransferData(m).data
                 /\ Len(r.Signature) = 65
                 /\ r.Signature = signature.R \o signature.S \o << signature.V >>

\* RelayMetaTx has sent a request whose token differs from its recipient
C27_Witness ==
    /\ call.op = "RelayMetaTx"
    /\ pc = "relayed"
    /\ Len(packed.requests) = 1
    /\ packed.requests[1].To = metaTx.Token
    /\ metaTx.Token # metaTx.To
    /\ packed.requests[1].Data = HashedCalldata(metaTx)

\* C28: every deadline a relay packs into the uint48 deadline field of a
\* ForwardRequestData is below 2^48 (at most six bytes wide): a MetaTx whose
\* deadline is 2^48 or more is never packed into execute or executeBatch
C28_DeadlineFitsUint48 ==
    (call.op \in RelayOps /\ packed # NoPacked) =>
        \A i \in 1..Len(packed.requests) :
            /\ Len(packed.requests[i].Deadline.abs) <= 6
            /\ \A j \in 1..2 : RelayedRequest(i).MetaTx.Deadline[j] = 0

\* the 65 bytes the signing primitive emits for a MetaTx under a key
PrimitiveOutput(m, ds, prv, recid) == CryptoSign(HashMetaTx(m, ds).hash, prv, recid).sig

\* C29: the Signature SignMetaTx returns holds the primitive's output
\* unchanged: r and s its first 64 bytes and v its 65th, the recovery
\* identifier 0 or 1; so do the signatures of a signed batch; and the 65 bytes
\* a relay packs for a request signed by SignMetaTx are the primitive's
\* output, with that v as 65th byte
C29_VPassThrough ==
    /\ (pc = "signed" /\ signed.metaTx = metaTx) =>
          \E recid \in RecoveryIds :
              LET out == PrimitiveOutput(metaTx, domainSeparator, privKey, recid)
              IN  /\ sig.V = out[65]
                  /\ sig.V = B(recid)
                  /\ sig.R = SubSeq(out, 1, 32)
                  /\ sig.S = SubSeq(out, 33, 64)
                  /\ ToBytes(sig) = out
                  /\ FromBytes(ZeroSignature, ToBytes(sig)).sig = sig
    /\ (call.op \in {"CreateBatchFromSingleUser", "CreateBatchFromMetaTxs"}
          /\ pc \in {"signloop", "ziploop", "validate", "zipped"}) =>
          \A i \in 1..idx :
              \E recid \in RecoveryIds :
                  /\ ToBytes(batch[i].Signature)
                       = PrimitiveOutput(metaTxs[i], domainSeparator, SigningKeyOf(i), recid)
                  /\ batch[i].Signature.V = B(recid)
    /\ (call.op \in RelayOps /\ packed # NoPacked) =>
          \A i \in 1..Len(packed.requests) :
              /\ packed.requests[i].Signature
                   = PrimitiveOutput(MetaTxAt(i), FixedDomainSeparator, 1, 0)
              /\ packed.requests[i].Signature[65] = B(0)
              /\ packed.requests[i].Signature[65] = RelayedRequest(i).Signature.V

\* a batch of two requests signed by SignMetaTx has been packed for relay
C29_Witness ==
    /\ call.op = "RelayMetaTxBatch"
    /\ pc = "gasprice"
    /\ Len(batch) = 2
    /\ packed.requests[2].Signature[65] = B(0)
    /\ packed.requests[2].Signature
         = ToBytes(SignMetaTx(batch[2].MetaTx, 1, FixedDomainSeparator, 0).sig)

\* the program points at which the batch at hand is an argument, not a result
BatchIsInput ==
    pc \in {"verifybatch", "verifyloop", "relaybatch", "relayvalidate", "gasprice",
            "relayernonce", "estimate", "networkid", "send", "sameuser", "nonces"}

\* C30: no operation changes its inputs, on the paths that fail or panic too.
\* The keys are never written, the list of MetaTxs only where NewMetaTxBatch
\* returns it; the MetaTx and the
\* domain separator change only where the caller hands over other ones (a
\* separator it creates, the arguments it gives a verifier), the bytes only
\* where ToBytes returns them, the Signature only where SignMetaTx returns it;
\* a batch handed to a verifier, a validator or a relay stays as it was; so
\* what an operation returned is what it returns for its arguments as they
\* are after the call: hashing or verifying again gives the same result
C30_InputsNotMutated ==
    [][/\ pc # "newbatch" => metaTxs' = metaTxs
       /\ privKey' = privKey
       /\ userPrivKeys' = userPrivKeys
       /\ pc # "signed" => metaTx' = metaTx
       /\ pc \notin {"domain", "signed"} => domainSeparator' = domainSeparator
       /\ pc # "tobytes" => data' = data
       /\ pc # "sign" => sig' = sig
       /\ BatchIsInput => batch' = batch
       /\ pc' = "hashed" => ret' = HashMetaTx(metaTx', domainSeparator')
       /\ (pc = "sign" /\ pc' = "signed") =>
            \E recid \in RecoveryIds :
                ret' = SignMetaTx(metaTx', privKey', domainSeparator', recid)
       /\ pc' = "verified" => ret' = VerifyMetaTxSignature(metaTx', sig', domainSeparator')
       /\ pc' = "batchverified" =>
            \A i \in 1..Len(batch') :
                ret'.results[i] = VerifyMetaTxSignature(batch'[i].MetaTx, batch'[i].Signature,
                                                        domainSeparator').valid]_vars

\* VerifyBatchRequests failed at the third request of a batch, and the batch
\* is still the batch that was received
C30_Witness ==
    /\ call.op = "VerifyBatchRequests"
    /\ pc = "verifyfailed"
    /\ idx = 2
    /\ ret.err # ErrCanceled
    /\ Len(batch) = 3
    /\ batch \in ReceivedBatches
    /\ batch[3].Signature = ZeroSignature

====
